---- MODULE Spec2Model ----
(***************************************************************************)
(* The completion-delivery protocol of server/lsp-server.js: one session   *)
(* per WebSocket connection, the 'message' handler of startLSPServer with  *)
(* its three completion modes, the suspended generate/modify handlers that *)
(* await the generation service, and the responses sent on each socket.    *)
(*                                                                         *)
(* JavaScript values are modelled as follows.  An optional value (a field  *)
(* that may be undefined) is a set with at most one element.  A text is a  *)
(* string for documents and prompts, and a sequence of atoms for DRL rule  *)
(* text; '' is "" resp. <<>>.  A JSON object is the sequence of its        *)
(* members in insertion order.                                             *)
(*                                                                         *)
(* The two pure functions of the client, detectRuleAtPosition and          *)
(* extractFactSchema, have their own specifications, LocatorSpec and       *)
(* SchemaSpec, which draw an input and apply the function to it.           *)
(***************************************************************************)
EXTENDS Naturals, Integers, Sequences, FiniteSets, TLC

(***************************************************************************)
(* Bounds of the model.                                                    *)
(***************************************************************************)
MaxConns == 2
MaxMsgs == 2
MaxId == 2
MaxColumn == 4
MaxLines == 5
MaxMembers == 2
\* the requests of the editor that the model follows
MaxRequests == 2
\* the requests are made in the first MaxTick milliseconds
MaxTick == 1
\* the calls of initializeLSP that the model follows
MaxInvocations == 3

Conns == 1..MaxConns
NoId == 0
Ids == 1..MaxId

None == {}
Some(x) == {x}
Get(opt) == CHOOSE x \in opt : TRUE

(***************************************************************************)
(* Texts.  A DRL text is a sequence of atoms: the keywords rule, when,     *)
(* then and end, the double quote, the whitespace atoms, and opaque pieces *)
(* of text that contain none of them.  The regular expressions and string  *)
(* methods of the source are computed on atoms.                            *)
(***************************************************************************)
IsSpace(a) == a \in {" ", "\n", "\t", "    "}

RECURSIVE trimStart(_)
trimStart(s) == IF s # <<>> /\ IsSpace(Head(s)) THEN trimStart(Tail(s)) ELSE s

RECURSIVE trimEnd(_)
trimEnd(s) ==
  IF s # <<>> /\ IsSpace(s[Len(s)]) THEN trimEnd(SubSeq(s, 1, Len(s) - 1)) ELSE s

trim(s) == trimEnd(trimStart(s))

\* smallest index i >= from with s[i] = a, or 0 when there is none
indexOf(s, a, from) ==
  LET hits == {i \in from..Len(s) : s[i] = a}
  IN  IF hits = {} THEN 0 ELSE CHOOSE i \in hits : \A j \in hits : i <= j

RECURSIVE split(_, _)
split(s, sep) ==
  LET i == indexOf(s, sep, 1)
  IN  IF i = 0 THEN <<s>>
      ELSE <<SubSeq(s, 1, i - 1)>> \o split(SubSeq(s, i + 1, Len(s)), sep)

RECURSIVE join(_, _)
join(parts, sep) ==
  IF parts = <<>> THEN <<>>
  ELSE IF Len(parts) = 1 THEN parts[1]
  ELSE parts[1] \o <<sep>> \o join(Tail(parts), sep)

(***************************************************************************)
(* JSON objects: a sequence of [name, value] members in insertion order.   *)
(* A fact value is [kind, json]; typeof gives the JavaScript type name.    *)
(***************************************************************************)
EmptyObject == <<>>
member(o, key) == {o[i].value : i \in {j \in 1..Len(o) : o[j].name = key}}
typeof(v) == IF v.kind \in {"null", "array", "object"} THEN "object" ELSE v.kind

Fact1 == <<[name |-> "premium", value |-> [kind |-> "number", json |-> "600"]],
           [name |-> "loyalCustomer", value |-> [kind |-> "boolean", json |-> "true"]]>>
Schema1 == <<[name |-> "premium", value |-> "number"],
             [name |-> "loyalCustomer", value |-> "boolean"]>>

Rule1 == <<"rule", " ", "\"", "R1", "\"", "\n", "when", "\n", "    ",
           "$q : Quote(premium > 500)", "\n", "then", "\n", "    ",
           "$q.setRequiresReview(true);", "\n", "end">>
\* a rule whose action body contains the letters "end" (in "sendReminder")
Rule2Action == <<"$q.s", "end", "Reminder();">>
Rule2 == <<"rule", " ", "\"", "R2", "\"", "\n", "when", "\n", "    ",
           "$q : Quote(premium > 900)", "\n", "then", "\n", "    ">>
         \o Rule2Action \o <<"\n", "end">>
\* the block of the document that holds the rule, as the client sends it
RuleContext1 == [startLine |-> 1, endLine |-> 5, startColumn |-> 1, endColumn |-> 4]
RuleContext2 == [startLine |-> 7, endLine |-> 11, startColumn |-> 1, endColumn |-> 4]
ruleContextOf(existingRule) ==
  IF existingRule = None THEN None
  ELSE IF Get(existingRule) = Rule1 THEN Some(RuleContext1) ELSE Some(RuleContext2)
Drl1 == <<"rule", " ", "\"", "G1", "\"", "\n", "when", "\n", "then", "\n", "end">>
Position1 == [line |-> 0, character |-> 0]
\* a document of one line that ends in the constructor pattern, and the
\* cursor position at the end of that line
DocQuote == "    $quote : Quote("
Position2 == [line |-> 0, character |-> 19]

Optional(S) == {None} \cup {Some(x) : x \in S}

\* the values of userPrompt and existingRule in the model's requests
UserPrompts == Optional({"flag premium over 750"})
ExistingRules == Optional({Rule1, Rule2})

VARIABLES
  serverUp,      \* the node process that runs startLSPServer is alive
  apiKey,        \* process.env.OPENAI_API_KEY is set
  readyState,    \* per connection: "idle" (not yet accepted), "open", "closed"
  sessions,      \* the sessions Map: connection -> session object
  ruleTemplates, \* the ruleTemplates array
  pending,       \* message handlers suspended at an await of the generation call
  outbox,        \* per connection: the messages ws.send has put on the socket
  received,      \* history: the 'message' events in arrival order
  httpCalls,     \* history: arrival numbers of the handlers that invoked fetch
  editorModel,   \* client: model.getValue(), the text in the editor
  editorPosition,\* client: position.lineNumber, the 1-based line of the cursor
  detectedRule,  \* client: the outcome of detectRuleAtPosition, once it ran
  factObjectInput, \* client: the argument of extractFactSchema, if it is present
  extractedSchema, \* client: the result of extractFactSchema, once it ran
  editorColumn,  \* client: position.column, the 1-based column of the cursor
  clientRequest, \* client: the response handler of the request in flight, if any
  shownSuggestions, \* client: the items of the suggestions dropdown
  pendingModifyRuleContext, \* client: the module variable of that name
  ws,            \* client: the module variable ws, a socket of webSockets if any
  isConnected,   \* client: the module variable of that name
  webSockets,    \* client: readyState of every WebSocket the client has created
  editorMounted, \* client: the EditorWithDiff component is mounted
  lspInitialized,\* client: lspInitialized.current of the component
  invocations,   \* client: the calls of initializeLSP, each with its position
  now,           \* client: Date.now(), in milliseconds since the page was loaded
  requests       \* client: the completion requests made, each with its
                 \* 'message' listener, its timers and its outcome

serverVars == <<serverUp, apiKey, readyState, sessions, ruleTemplates, pending,
                outbox, received, httpCalls>>
editVars == <<editorColumn, clientRequest, shownSuggestions, pendingModifyRuleContext>>
socketVars == <<ws, isConnected, webSockets, editorMounted, lspInitialized,
                invocations, now, requests>>
clientVars == <<editorModel, editorPosition, detectedRule, factObjectInput,
                extractedSchema, editVars, socketVars>>
vars == <<serverVars, clientVars>>

\* the outcome of a function of the client that has not been called
NotRun == [done |-> FALSE]
\* no request has been made from the editor
EditIdle ==
  /\ editorColumn = 1
  /\ clientRequest = None
  /\ shownSuggestions = <<>>
  /\ pendingModifyRuleContext = None

\* the page has been loaded and no editor has been mounted
SocketIdle ==
  /\ ws = None
  /\ isConnected = FALSE
  /\ webSockets = <<>>
  /\ editorMounted = FALSE
  /\ lspInitialized = FALSE
  /\ invocations = <<>>
  /\ now = 0
  /\ requests = <<>>

\* the editor is mounted and its call of initializeLSP has returned true:
\* one socket, open and held by ws; the call is left out of invocations
SocketConnected ==
  /\ ws = Some(1)
  /\ isConnected = TRUE
  /\ webSockets = <<"open">>
  /\ editorMounted = TRUE
  /\ lspInitialized = TRUE
  /\ invocations = <<>>
  /\ now = 0
  /\ requests = <<>>

\* the client before the user has typed or loaded anything
ClientIdle ==
  /\ EditIdle
  /\ SocketIdle
  /\ editorModel = <<>>
  /\ editorPosition = 1
  /\ detectedRule = NotRun
  /\ factObjectInput = Some(EmptyObject)
  /\ extractedSchema = NotRun

(***************************************************************************)
(* lsp-server.js 1037-1044: the session object stored for a new socket.    *)
(* sessionId (Date.now()-Math.random()) is only logged and is left out.    *)
(***************************************************************************)
newSession ==
  [initialized |-> FALSE, factObject |-> EmptyObject, factSchema |-> EmptyObject,
   bddTests |-> "", documentContent |-> ""]

TemplateFlagHighPremium ==
  [label |-> "Flag high premium greater than 500",
   detail |-> "DRL Rule Template",
   documentation |-> "A rule that flags quotes with premium greater than 500 for review",
   ruleContent |-> <<"rule", " ", "\"", "Flag high premium greater than 500", "\"",
                     "\n", "when", "\n", "    ", "$quote : Quote(premium > 500)",
                     "\n", "then", "\n", "    ", "$quote.setRequiresReview(true);",
                     "\n", "    ", "System.out.println(", "\"",
                     "Quote requires case review", "\"", ");", "\n", "end">>,
   kind |-> 14, insertTextRules |-> 4]

(***************************************************************************)
(* buildCompletionsFromTemplates: one completion item per template.        *)
(***************************************************************************)
buildCompletionsFromTemplates(templates) ==
  [i \in 1..Len(templates) |->
     [label |-> templates[i].label,
      kind |-> templates[i].kind,
      detail |-> templates[i].detail,
      insertText |-> templates[i].ruleContent,
      insertTextRules |-> templates[i].insertTextRules,
      documentation |-> templates[i].documentation]]

(***************************************************************************)
(* indentBlock: every line trimmed; a non-blank line gets the pad.         *)
(***************************************************************************)
indentBlock(text) ==
  LET lines == split(text, "\n")
      mapped == [i \in 1..Len(lines) |->
                   IF trim(lines[i]) # <<>> THEN <<"    ">> \o trim(lines[i])
                                            ELSE <<>>]
  IN  join(mapped, "\n")

\* the /i flag of the regular expressions, on the keyword atoms
lower(a) ==
  CASE a \in {"RULE", "Rule"} -> "rule"
    [] a \in {"WHEN", "When"} -> "when"
    [] a \in {"THEN", "Then"} -> "then"
    [] a \in {"END", "End"} -> "end"
    [] OTHER -> a

\* smallest index i >= from with lower(s[i]) = kw, or 0
indexOfKeyword(s, kw, from) ==
  LET hits == {i \in from..Len(s) : lower(s[i]) = kw}
  IN  IF hits = {} THEN 0 ELSE CHOOSE i \in hits : \A j \in hits : i <= j

\* /rule\s+"([^"]+)"/i : the first capture of the leftmost match, if any
matchRuleName(s) ==
  LET nonSpaceAfter(i) ==
        LET js == {j \in (i + 1)..Len(s) : ~IsSpace(s[j])}
        IN  IF js = {} THEN 0 ELSE CHOOSE j \in js : \A k \in js : j <= k
      matchesAt(i) ==
        /\ lower(s[i]) = "rule"
        /\ LET j == nonSpaceAfter(i)
           IN  /\ j > i + 1
               /\ s[j] = "\""
               /\ indexOf(s, "\"", j + 1) > j + 1
      starts == {i \in 1..Len(s) : matchesAt(i)}
  IN  IF starts = {} THEN None
      ELSE LET i == CHOOSE x \in starts : \A y \in starts : x <= y
               j == nonSpaceAfter(i)
           IN  Some(SubSeq(s, j + 1, indexOf(s, "\"", j + 1) - 1))

\* /open([\s\S]*?)close/i : the first capture of the leftmost match, if any
matchBetween(s, open, close) ==
  LET i == indexOfKeyword(s, open, 1)
      j == IF i = 0 THEN 0 ELSE indexOfKeyword(s, close, i + 1)
  IN  IF i = 0 \/ j = 0 THEN None ELSE Some(SubSeq(s, i + 1, j - 1))

SampleRule ==
  <<"rule", " ", "\"", "Sample Rule", "\"", "\n", "when", "\n", "    ",
    "$quote : Quote(premium > 500)", "\n", "then", "\n", "    ",
    "$quote.setRequiresReview(true);", "\n", "end">>

(***************************************************************************)
(* buildMockModifiedRule: the rule renamed with the suffix " (Modified)",  *)
(* its condition and action bodies re-indented.  existingRule is optional. *)
(***************************************************************************)
buildMockModifiedRule(existingRule, userPrompt) ==
  LET baseRule == IF existingRule # None /\ trim(Get(existingRule)) # <<>>
                  THEN Get(existingRule) ELSE SampleRule
      nameMatch == matchRuleName(baseRule)
      baseName == IF nameMatch # None THEN Get(nameMatch) ELSE <<"Rule">>
      newRuleName == baseName \o <<" (Modified)">>
      conditionMatch == matchBetween(baseRule, "when", "then")
      actionMatch == matchBetween(baseRule, "then", "end")
      rawCondition == IF conditionMatch # None /\ trim(Get(conditionMatch)) # <<>>
                      THEN trim(Get(conditionMatch))
                      ELSE <<"$quote : Quote(premium > 750)">>
      rawAction == IF actionMatch # None /\ trim(Get(actionMatch)) # <<>>
                   THEN trim(Get(actionMatch))
                   ELSE <<"$quote.setRequiresReview(true);", "\n",
                          "$quote.setEscalated(true);">>
      condition == indentBlock(rawCondition)
      action == indentBlock(rawAction)
  IN  [ruleName |-> newRuleName,
       ruleText |-> <<"rule", " ", "\"">> \o newRuleName \o <<"\"", "\n", "\n",
                    "when", "\n">> \o condition \o <<"\n", "\n", "then", "\n">>
                    \o action \o <<"\n", "\n", "end">>]

\* buildMockModifiedRule on the requests of the model, evaluated once
mockModifiedRule ==
  [existingRule \in ExistingRules |->
     [userPrompt \in UserPrompts |-> buildMockModifiedRule(existingRule, userPrompt)]]

(***************************************************************************)
(* initializeSession: the session object after an initialize/context       *)
(* message with the given params (an absent field is None).                *)
(***************************************************************************)
initializeSession(session, params) ==
  [initialized |-> TRUE,
   factObject |-> IF params.factObject # None THEN Get(params.factObject)
                                              ELSE EmptyObject,
   factSchema |-> IF params.factSchema # None THEN Get(params.factSchema)
                                              ELSE EmptyObject,
   bddTests |-> IF params.bddTests # None THEN Get(params.bddTests) ELSE "",
   documentContent |-> IF params.currentDrl # None THEN Get(params.currentDrl)
                                                   ELSE ""]

\* mutant: the type of a field is looked up in the schema only
getFactFields_schemaOnly(session) ==
  [i \in 1..Len(session.factObject) |->
     LET key == session.factObject[i].name
         declared == member(session.factSchema, key)
     IN  [name |-> key,
          type |-> IF declared # None THEN Get(declared) ELSE "",
          value |-> session.factObject[i].value]]

(***************************************************************************)
(* getFactFields: name, type and value of every member of the fact object; *)
(* the type is the schema's entry or, without one, typeof the value.       *)
(***************************************************************************)
getFactFields(session) ==
  [i \in 1..Len(session.factObject) |->
     LET key == session.factObject[i].name
         declared == member(session.factSchema, key)
     IN  [name |-> key,
          type |-> IF declared # None /\ Get(declared) # ""
                   THEN Get(declared) ELSE typeof(session.factObject[i].value),
          value |-> session.factObject[i].value]]

\* mutant: every value is classified by typeof alone
extractFactSchema_typeofOnly(factObject) ==
  [i \in 1..Len(factObject) |->
     [name |-> factObject[i].name, value |-> typeof(factObject[i].value)]]

(***************************************************************************)
(* extractFactSchema (utils/factSchema.ts): for every top-level key the    *)
(* type of its value: null, array, or the result of typeof.                *)
(***************************************************************************)
extractFactSchema(factObject) ==
  [i \in 1..Len(factObject) |->
     [name |-> factObject[i].name,
      value |-> IF factObject[i].value.kind = "null" THEN "null"
                ELSE IF factObject[i].value.kind = "array" THEN "array"
                ELSE typeof(factObject[i].value)]]

\* capitalize, tabulated on the field names of the model's fact objects
capitalize(str) ==
  CASE str = "premium" -> "Premium"
    [] str = "loyalCustomer" -> "LoyalCustomer"
    [] OTHER -> str

(***************************************************************************)
(* getFactMethods: a getter (is... for a boolean) and a setter item.       *)
(***************************************************************************)
getFactMethods(fieldName, fieldType) ==
  LET getter ==
        IF fieldType = "boolean"
        THEN [label |-> "is" \o capitalize(fieldName) \o "()", kind |-> 2,
              detail |-> "boolean",
              insertText |-> <<"is" \o capitalize(fieldName) \o "()">>]
        ELSE [label |-> "get" \o capitalize(fieldName) \o "()", kind |-> 2,
              detail |-> fieldType,
              insertText |-> <<"get" \o capitalize(fieldName) \o "()">>]
      setterParam == IF fieldType = "boolean" THEN "true"
                     ELSE IF fieldType = "number" THEN "0" ELSE "\"\""
  IN  <<getter,
        [label |-> "set" \o capitalize(fieldName) \o "(" \o setterParam \o ")",
         kind |-> 2, detail |-> "void",
         insertText |-> <<"set" \o capitalize(fieldName) \o "($1)">>,
         insertTextRules |-> 4]>>

RECURSIVE concat(_)
concat(seqs) == IF seqs = <<>> THEN <<>> ELSE Head(seqs) \o concat(Tail(seqs))

(***************************************************************************)
(* handleCompletionRequest (inline mode): the fixed items, then one        *)
(* comparison item per number or boolean field, then the method items.     *)
(* Position and document content are only logged.                          *)
(***************************************************************************)
handleCompletionRequest(session, position, documentContent) ==
  LET factFields == getFactFields(session)
      keyword(w, text) == [label |-> w, kind |-> 14, detail |-> "DRL keyword",
                           insertText |-> <<text>>]
      fixed ==
        <<[label |-> "rule \"Rule Name\"", kind |-> 14,
           detail |-> "DRL rule template",
           insertText |-> <<"rule", " ", "\"", "$1", "\"", "\n", "when", "\n",
                            "    ", "$2", "\n", "then", "\n", "    ", "$3",
                            "\n", "end">>,
           insertTextRules |-> 4],
          keyword("when", "when"), keyword("then", "then"), keyword("end", "end"),
          keyword("package", "package "), keyword("import", "import "),
          [label |-> "Quote", kind |-> 7, detail |-> "Quote fact object",
           insertText |-> <<"Quote">>],
          [label |-> "$quote", kind |-> 6, detail |-> "Quote variable",
           insertText |-> <<"$quote">>]>>
      comparison(field) ==
        IF field.type = "number"
        THEN <<[label |-> field.name \o " > 0", kind |-> 5,
                detail |-> field.type \o " field",
                insertText |-> <<field.name \o " > 0">>]>>
        ELSE IF field.type = "boolean"
        THEN <<[label |-> field.name \o " == true", kind |-> 5,
                detail |-> field.type \o " field",
                insertText |-> <<field.name \o " == true">>]>>
        ELSE <<>>
  IN  fixed
      \o concat([i \in 1..Len(factFields) |-> comparison(factFields[i])])
      \o concat([i \in 1..Len(factFields) |->
                   getFactMethods(factFields[i].name, factFields[i].type)])

Init ==
  /\ serverUp = TRUE
  /\ apiKey \in BOOLEAN
  /\ readyState = [c \in Conns |-> "idle"]
  /\ sessions = [c \in {} |-> newSession]
  /\ ruleTemplates = <<TemplateFlagHighPremium>>
  /\ pending = {}
  /\ outbox = [c \in Conns |-> <<>>]
  /\ received = <<>>
  /\ httpCalls = {}
  /\ ClientIdle

(***************************************************************************)
(* The messages a client may put on a socket.  valid = FALSE is a frame    *)
(* whose text JSON.parse rejects.                                          *)
(***************************************************************************)
InitParamsSet ==
  {[factObject |-> Some(Fact1), factSchema |-> None,
    bddTests |-> Some("Scenario: flag high premium"), currentDrl |-> Some(DocQuote)],
   [factObject |-> Some(Fact1), factSchema |-> Some(Schema1),
    bddTests |-> None, currentDrl |-> None]}

DidChangeParamsSet ==
  {[text |-> Some("")], [text |-> Some("docB")]}

CompletionParamsSet ==
  {p \in [position : {None, Some(Position1), Some(Position2)},
          mode : {None, Some("generate"), Some("modify"), Some("inline"),
                  Some("explain")},
          userPrompt : UserPrompts,
          existingRule : ExistingRules,
          ruleContext : Optional({RuleContext1, RuleContext2})] :
     /\ p.ruleContext = ruleContextOf(p.existingRule)
     /\ p.position = Some(Position2) => p.mode = Some("inline")
     /\ p.position = None => p.mode = None /\ p.userPrompt = None
     /\ p.existingRule # None => p.mode = Some("modify")
     /\ p.userPrompt # None <=> p.mode \in {Some("generate"), Some("modify")}
     /\ p.position = None => p.existingRule = None}


Messages ==
  {[valid |-> FALSE, method |-> "", id |-> NoId, params |-> None]}
  \cup [valid : {TRUE}, method : {"initialize/context"}, id : Ids,
        params : Optional(InitParamsSet)]
  \cup [valid : {TRUE}, method : {"textDocument/didChange"}, id : {NoId},
        params : Optional(DidChangeParamsSet)]
  \cup [valid : {TRUE}, method : {"textDocument/completion"}, id : Ids,
        params : Optional(CompletionParamsSet)]
  \cup [valid : {TRUE}, method : {"shutdown"}, id : {NoId}, params : {None}]

(***************************************************************************)
(* What the generation service may do with a fetch that it answers:        *)
(* fetch rejects, a non-2xx status, a body without content, content that   *)
(* is not JSON, or a JSON object with or without the keys drl, reasoning.  *)
(***************************************************************************)
ServiceOutcomes ==
  {[fetch |-> "rejected", content |-> None],
   [fetch |-> "notOk", content |-> None],
   [fetch |-> "ok", content |-> None],
   [fetch |-> "ok", content |-> Some([parses |-> FALSE, drl |-> None, reasoning |-> None])]}
  \cup {[fetch |-> "ok", content |-> Some([parses |-> TRUE, drl |-> d, reasoning |-> r])] :
          d \in {None, Some(Drl1)}, r \in {None, Some("raised the threshold")}}

\* the outcome of an async call that threw before reaching fetch
ThrewBeforeFetch == [fetch |-> "none", content |-> None]

\* mutant: content that is not JSON is taken as an empty result
modifyRuleWithLLM_lenientParse(outcome) ==
  IF outcome.fetch # "ok" \/ outcome.content = None
  THEN None
  ELSE LET result == Get(outcome.content)
       IN  Some([drl |-> IF result.drl # None THEN Get(result.drl) ELSE <<>>,
                 reasoning |-> IF result.reasoning # None /\ Get(result.reasoning) # ""
                               THEN Get(result.reasoning)
                               ELSE "Rule modified successfully"])

(***************************************************************************)
(* modifyRuleWithLLM, from fetch on: Some([drl, reasoning]) when the       *)
(* promise resolves, None when it rejects.                                 *)
(***************************************************************************)
modifyRuleWithLLM(outcome) ==
  IF outcome.fetch # "ok" \/ outcome.content = None
     \/ ~Get(outcome.content).parses
  THEN None
  ELSE LET result == Get(outcome.content)
       IN  Some([drl |-> IF result.drl # None THEN Get(result.drl) ELSE <<>>,
                 reasoning |-> IF result.reasoning # None /\ Get(result.reasoning) # ""
                               THEN Get(result.reasoning)
                               ELSE "Rule modified successfully"])

(***************************************************************************)
(* generateRuleWithLLM (llm-rule-creation-handler.js): resolves with       *)
(* {drl, reasoning} when the reply is a JSON object with both keys, and    *)
(* fails otherwise.                                                        *)
(***************************************************************************)
generateRuleWithLLM(outcome) ==
  IF outcome.fetch # "ok" \/ outcome.content = None
     \/ ~Get(outcome.content).parses
     \/ Get(outcome.content).drl = None \/ Get(outcome.content).reasoning = None
  THEN None
  ELSE Some([drl |-> Get(Get(outcome.content).drl),
             reasoning |-> Get(Get(outcome.content).reasoning)])

\* mutant: a failed call yields no items
handleCreateRequest_emptyOnFailure(k, outcome, templates) ==
  LET result == generateRuleWithLLM(outcome)
  IN  IF result # None
      THEN <<[label |-> "Generated DRL Rule", kind |-> 14,
              detail |-> Get(result).reasoning,
              insertText |-> Get(result).drl,
              insertTextRules |-> 4,
              documentation |-> [reasoning |-> Get(result).reasoning,
                                 drl |-> Get(result).drl]]>>
      ELSE <<>>

\* mutant: the generated rule is followed by the template items
handleCreateRequest_appendsTemplates(k, outcome, templates) ==
  LET result == generateRuleWithLLM(outcome)
  IN  IF result # None
      THEN <<[label |-> "Generated DRL Rule", kind |-> 14,
              detail |-> Get(result).reasoning,
              insertText |-> Get(result).drl,
              insertTextRules |-> 4,
              documentation |-> [reasoning |-> Get(result).reasoning,
                                 drl |-> Get(result).drl]]>>
           \o buildCompletionsFromTemplates(templates)
      ELSE buildCompletionsFromTemplates(templates)

(***************************************************************************)
(* handleCreateRequest after its await: the generated rule as one item,    *)
(* or the template items when the call failed.                             *)
(***************************************************************************)
handleCreateRequest(k, outcome, templates) ==
  LET result == generateRuleWithLLM(outcome)
  IN  IF result # None
      THEN <<[label |-> "Generated DRL Rule", kind |-> 14,
              detail |-> Get(result).reasoning,
              insertText |-> Get(result).drl,
              insertTextRules |-> 4,
              documentation |-> [reasoning |-> Get(result).reasoning,
                                 drl |-> Get(result).drl]]>>
      ELSE buildCompletionsFromTemplates(templates)

\* mutant: the fallback offers the mock modification twice
handleModifyRequest_duplicatesFallback(k, outcome) ==
  LET result == modifyRuleWithLLM(outcome)
      basedOn == IF k.userPrompt # None /\ Get(k.userPrompt) # ""
                 THEN Get(k.userPrompt) ELSE "user request"
      mock == [label |-> "Modified Rule (Fallback)", kind |-> 14,
               detail |-> "Modified DRL Rule (Mock)",
               insertText |-> mockModifiedRule[k.existingRule][k.userPrompt].ruleText,
               insertTextRules |-> 4,
               documentation |-> "Modified rule based on: " \o basedOn
                                 \o " (Fallback due to LLM error)"]
  IN  IF result # None
      THEN <<[label |-> "Modified Rule", kind |-> 14,
              detail |-> "Modified DRL Rule",
              insertText |-> Get(result).drl,
              insertTextRules |-> 4,
              documentation |-> "Modified rule based on: " \o basedOn
                                \o "\n\nReasoning: " \o Get(result).reasoning]>>
      ELSE <<mock, mock>>

(***************************************************************************)
(* handleModifyRequest after its await: the modified rule as one item, or  *)
(* the mock modification of existingRule when the call failed.             *)
(***************************************************************************)
handleModifyRequest(k, outcome) ==
  LET result == modifyRuleWithLLM(outcome)
      basedOn == IF k.userPrompt # None /\ Get(k.userPrompt) # ""
                 THEN Get(k.userPrompt) ELSE "user request"
  IN  IF result # None
      THEN <<[label |-> "Modified Rule", kind |-> 14,
              detail |-> "Modified DRL Rule",
              insertText |-> Get(result).drl,
              insertTextRules |-> 4,
              documentation |-> "Modified rule based on: " \o basedOn
                                \o "\n\nReasoning: " \o Get(result).reasoning]>>
      ELSE <<[label |-> "Modified Rule (Fallback)", kind |-> 14,
              detail |-> "Modified DRL Rule (Mock)",
              insertText |-> mockModifiedRule[k.existingRule][k.userPrompt].ruleText,
              insertTextRules |-> 4,
              documentation |-> "Modified rule based on: " \o basedOn
                                \o " (Fallback due to LLM error)"]>>

(***************************************************************************)
(* wss.on('connection'): a socket is accepted and gets a session.          *)
(***************************************************************************)
\* mutant: a new socket is given a session object that already exists
OnConnection_sharesSession(c) ==
  /\ serverUp
  /\ readyState[c] = "idle"
  /\ readyState' = [readyState EXCEPT ![c] = "open"]
  /\ sessions' = [d \in DOMAIN sessions \cup {c} |->
                    IF d # c THEN sessions[d]
                    ELSE IF DOMAIN sessions = {} THEN newSession
                    ELSE sessions[CHOOSE e \in DOMAIN sessions : TRUE]]
  /\ UNCHANGED <<serverUp, apiKey, ruleTemplates, pending, outbox, received, httpCalls>>
  /\ UNCHANGED clientVars

OnConnection(c) ==
  /\ serverUp
  /\ readyState[c] = "idle"
  /\ readyState' = [readyState EXCEPT ![c] = "open"]
  /\ sessions' = [d \in DOMAIN sessions \cup {c} |->
                    IF d = c THEN newSession ELSE sessions[d]]
  /\ UNCHANGED <<serverUp, apiKey, ruleTemplates, pending, outbox, received, httpCalls>>
  /\ UNCHANGED clientVars

(***************************************************************************)
(* ws.on('close'): sessions.delete(ws).                                    *)
(***************************************************************************)
\* mutant: the session of a closed socket stays in the Map
OnClose_keepsSession(c) ==
  /\ serverUp
  /\ readyState[c] = "open"
  /\ readyState' = [readyState EXCEPT ![c] = "closed"]
  /\ UNCHANGED sessions
  /\ UNCHANGED <<serverUp, apiKey, ruleTemplates, pending, outbox, received, httpCalls>>
  /\ UNCHANGED clientVars

OnClose(c) ==
  /\ serverUp
  /\ readyState[c] = "open"
  /\ readyState' = [readyState EXCEPT ![c] = "closed"]
  /\ sessions' = [d \in DOMAIN sessions \ {c} |-> sessions[d]]
  /\ UNCHANGED <<serverUp, apiKey, ruleTemplates, pending, outbox, received, httpCalls>>
  /\ UNCHANGED clientVars

(***************************************************************************)
(* ws.send: the message goes out on an open socket; on a socket that is    *)
(* no longer open the ws library drops it without throwing.                *)
(***************************************************************************)
\* mutant: the message is put on the socket whatever its state
wsSend_ignoresReadyState(c, msg) == [outbox EXCEPT ![c] = Append(@, msg)]

wsSend(c, msg) ==
  IF readyState[c] = "open" THEN [outbox EXCEPT ![c] = Append(@, msg)] ELSE outbox

\* The responses.  seq is history: the arrival number of the 'message'
\* event whose handler sends the response.
initializeResponse(message, seq) ==
  [id |-> message.id, result |-> [initialized |-> TRUE], seq |-> seq]

\* mutant: the id is read from the message received last, as if `message`
\* were shared by the handlers
completionResponse_sharedMessage(id, completions, seq) ==
  [id |-> IF received = <<>> THEN id ELSE received[Len(received)].id,
   result |-> [items |-> completions], seq |-> seq]

\* mutant: a fallback list is reported as an error
completionResponse_errorOnFallback(id, completions, seq) ==
  IF completions # <<>> /\ completions[1].label = "Modified Rule (Fallback)"
  THEN [id |-> id, error |-> [code |-> "InternalError"], seq |-> seq]
  ELSE [id |-> id, result |-> [items |-> completions], seq |-> seq]

completionResponse(id, completions, seq) ==
  [id |-> id, result |-> [items |-> completions], seq |-> seq]

(***************************************************************************)
(* The statements of the try block that throw a TypeError or SyntaxError:  *)
(* JSON.parse of an invalid text, the destructuring of undefined params in *)
(* initializeSession, message.params.position and position.line.           *)
(***************************************************************************)
HandlerThrows(message) ==
  \/ ~message.valid
  \/ message.method = "initialize/context" /\ message.params = None
  \/ message.method = "textDocument/completion"
       /\ (message.params = None \/ Get(message.params).position = None)

(***************************************************************************)
(* The catch block reads `message`, which is scoped to the try block: it   *)
(* throws a ReferenceError, the async handler's promise rejects and nobody *)
(* handles the rejection.  Depending on the --unhandled-rejections mode of *)
(* the runtime the process only warns, or it exits; with the process all   *)
(* sockets and the sessions Map are gone.                                  *)
(***************************************************************************)
CatchBlock ==
  /\ \/ UNCHANGED <<serverUp, readyState, sessions>>
     \/ /\ serverUp' = FALSE
        /\ readyState' = [c \in Conns |->
                            IF readyState[c] = "open" THEN "closed" ELSE readyState[c]]
        /\ sessions' = [c \in {} |-> newSession]
  /\ UNCHANGED <<pending, outbox, httpCalls>>

\* initialize/context: initializeSession, then the acknowledgement
InitializeContext(c, message, seq) ==
  /\ sessions' = [sessions EXCEPT ![c] = initializeSession(@, Get(message.params))]
  /\ outbox' = wsSend(c, initializeResponse(message, seq))
  /\ UNCHANGED <<serverUp, readyState, pending, httpCalls>>

\* mutant: the calls in flight for the connection read the new document
DidChange_reachesCalls(c, message, seq) ==
  LET text == IF message.params = None THEN None ELSE Get(message.params).text
      changes == text # None /\ Get(text) # ""
  IN  /\ sessions' = IF changes
                     THEN [sessions EXCEPT ![c].documentContent = Get(text)]
                     ELSE sessions
      /\ pending' = IF changes
                    THEN {IF k.conn = c THEN [k EXCEPT !.documentContent = Get(text)]
                                        ELSE k : k \in pending}
                    ELSE pending
      /\ UNCHANGED <<serverUp, readyState, outbox, httpCalls>>

\* mutant: the document change is acknowledged
DidChange_acknowledged(c, message, seq) ==
  LET text == IF message.params = None THEN None ELSE Get(message.params).text
  IN  /\ sessions' = IF text # None /\ Get(text) # ""
                     THEN [sessions EXCEPT ![c].documentContent = Get(text)]
                     ELSE sessions
      /\ outbox' = wsSend(c, [id |-> message.id, result |-> [updated |-> TRUE],
                              seq |-> seq])
      /\ UNCHANGED <<serverUp, readyState, pending, httpCalls>>

\* mutant: the document change stores a new session object holding the text
DidChange_replacesSession(c, message, seq) ==
  LET text == IF message.params = None THEN None ELSE Get(message.params).text
  IN  /\ sessions' = IF text # None /\ Get(text) # ""
                     THEN [sessions EXCEPT ![c] =
                             [newSession EXCEPT !.documentContent = Get(text)]]
                     ELSE sessions
      /\ UNCHANGED <<serverUp, readyState, pending, outbox, httpCalls>>

\* mutant: the text of a document change is appended to the document
DidChange_appends(c, message, seq) ==
  LET text == IF message.params = None THEN None ELSE Get(message.params).text
  IN  /\ sessions' = IF text # None /\ Get(text) # ""
                     THEN [sessions EXCEPT ![c].documentContent = @ \o Get(text)]
                     ELSE sessions
      /\ UNCHANGED <<serverUp, readyState, pending, outbox, httpCalls>>

\* textDocument/didChange: a truthy text replaces documentContent; no response
DidChange(c, message, seq) ==
  LET text == IF message.params = None THEN None ELSE Get(message.params).text
  IN  /\ sessions' = IF text # None /\ Get(text) # ""
                     THEN [sessions EXCEPT ![c].documentContent = Get(text)]
                     ELSE sessions
      /\ UNCHANGED <<serverUp, readyState, pending, outbox, httpCalls>>

\* mutant: fetch is called without looking at the credential
modifyRuleWithLLMFetches_noKeyCheck(existingRule) == existingRule # None

\* modifyRuleWithLLM up to fetch: existingRule.length throws for an absent
\* rule, a missing OPENAI_API_KEY throws; otherwise fetch is called
modifyRuleWithLLMFetches(existingRule) == existingRule # None /\ apiKey

\* generateRuleWithLLM up to the call: a missing credential fails first
generateRuleWithLLMFetches == apiKey

\* mutant: an inline request waits while a generation call is outstanding
Completion_inlineSuspends(c, message, seq) ==
  LET session == sessions[c]
      params == Get(message.params)
      position == Get(params.position)
      requestMode == IF params.mode # None /\ Get(params.mode) # ""
                     THEN Get(params.mode) ELSE "generate"
      documentContent == session.documentContent
      call == [seq |-> seq, conn |-> c, id |-> message.id,
               documentContent |-> documentContent,
               factObject |-> session.factObject,
               factSchema |-> session.factSchema]
  IN  /\ UNCHANGED <<serverUp, readyState, sessions>>
      /\ IF requestMode = "inline" /\ pending = {}
         THEN /\ outbox' = wsSend(c, completionResponse(message.id,
                    handleCompletionRequest(session, position, documentContent), seq))
              /\ UNCHANGED <<pending, httpCalls>>
         ELSE IF requestMode = "modify"
         THEN LET fetches == modifyRuleWithLLMFetches(params.existingRule)
              IN  /\ pending' = pending \cup
                       {call @@ [mode |-> "modify", userPrompt |-> params.userPrompt,
                                 existingRule |-> params.existingRule,
                                 fetching |-> fetches]}
                  /\ httpCalls' = IF fetches THEN httpCalls \cup {seq} ELSE httpCalls
                  /\ UNCHANGED outbox
         ELSE LET fetches == generateRuleWithLLMFetches
              IN  /\ pending' = pending \cup
                       {call @@ [mode |-> "create",
                                 userPrompt |->
                                   IF params.userPrompt # None /\ Get(params.userPrompt) # ""
                                   THEN params.userPrompt
                                   ELSE Some("Generate a DRL rule"),
                                 existingRule |-> None,
                                 fetching |-> fetches]}
                  /\ httpCalls' = IF fetches THEN httpCalls \cup {seq} ELSE httpCalls
                  /\ UNCHANGED outbox

(***************************************************************************)
(* textDocument/completion.  Inline mode answers at once.  Modify mode and *)
(* every other mode (generate is the default) start the generation call    *)
(* and suspend the handler at its await; the call's arguments are fixed    *)
(* at that moment.                                                         *)
(***************************************************************************)
Completion(c, message, seq) ==
  LET session == sessions[c]
      params == Get(message.params)
      position == Get(params.position)
      requestMode == IF params.mode # None /\ Get(params.mode) # ""
                     THEN Get(params.mode) ELSE "generate"
      documentContent == session.documentContent
      call == [seq |-> seq, conn |-> c, id |-> message.id,
               documentContent |-> documentContent,
               factObject |-> session.factObject,
               factSchema |-> session.factSchema]
  IN  /\ UNCHANGED <<serverUp, readyState, sessions>>
      /\ IF requestMode = "inline"
         THEN /\ outbox' = wsSend(c, completionResponse(message.id,
                    handleCompletionRequest(session, position, documentContent), seq))
              /\ UNCHANGED <<pending, httpCalls>>
         ELSE IF requestMode = "modify"
         THEN LET fetches == modifyRuleWithLLMFetches(params.existingRule)
              IN  /\ pending' = pending \cup
                       {call @@ [mode |-> "modify", userPrompt |-> params.userPrompt,
                                 existingRule |-> params.existingRule,
                                 fetching |-> fetches]}
                  /\ httpCalls' = IF fetches THEN httpCalls \cup {seq} ELSE httpCalls
                  /\ UNCHANGED outbox
         ELSE LET fetches == generateRuleWithLLMFetches
              IN  /\ pending' = pending \cup
                       {call @@ [mode |-> "create",
                                 userPrompt |->
                                   IF params.userPrompt # None /\ Get(params.userPrompt) # ""
                                   THEN params.userPrompt
                                   ELSE Some("Generate a DRL rule"),
                                 existingRule |-> None,
                                 fetching |-> fetches]}
                  /\ httpCalls' = IF fetches THEN httpCalls \cup {seq} ELSE httpCalls
                  /\ UNCHANGED outbox

\* any other method is logged
UnknownMethod(c, message, seq) ==
  UNCHANGED <<serverUp, readyState, sessions, pending, outbox, httpCalls>>

\* mutant: a 'message' event waits until no handler is suspended
MessageEventDispatched_serialized(c) ==
  /\ serverUp
  /\ readyState[c] = "open"
  /\ Len(received) < MaxMsgs
  /\ pending = {}

\* The event loop runs the async 'message' listener of an open socket for
\* every frame that arrives, whether or not earlier handlers are suspended.
MessageEventDispatched(c) ==
  /\ serverUp
  /\ readyState[c] = "open"
  /\ Len(received) < MaxMsgs

(***************************************************************************)
(* ws.on('message'): the handler runs up to its first await.               *)
(***************************************************************************)
OnMessage(c, message) ==
  LET seq == Len(received) + 1
  IN  /\ MessageEventDispatched(c)
      /\ received' = Append(received,
            [conn |-> c, method |-> message.method, id |-> message.id,
             params |-> message.params,
             initialized |-> c \in DOMAIN sessions /\ sessions[c].initialized])
      /\ IF ~message.valid THEN CatchBlock
         ELSE IF c \notin DOMAIN sessions THEN UnknownMethod(c, message, seq)
         ELSE IF HandlerThrows(message) THEN CatchBlock
         ELSE IF message.method = "initialize/context"
              THEN InitializeContext(c, message, seq)
         ELSE IF message.method = "textDocument/didChange"
              THEN DidChange(c, message, seq)
         ELSE IF message.method = "textDocument/completion"
              THEN Completion(c, message, seq)
         ELSE UnknownMethod(c, message, seq)
      /\ UNCHANGED <<apiKey, ruleTemplates>>
      /\ UNCHANGED clientVars

(***************************************************************************)
(* The awaited generation call settles with the given outcome and the      *)
(* suspended handler runs to its end: it builds the completions and sends  *)
(* the response with the id of its own message.                            *)
(***************************************************************************)
ResumeHandler(k, outcome) ==
  /\ serverUp
  /\ k \in pending
  /\ outcome \in (IF k.fetching THEN ServiceOutcomes ELSE {ThrewBeforeFetch})
  /\ LET completions == IF k.mode = "modify"
                        THEN handleModifyRequest(k, outcome)
                        ELSE handleCreateRequest(k, outcome, ruleTemplates)
     IN  outbox' = wsSend(k.conn, completionResponse(k.id, completions, k.seq))
  /\ pending' = pending \ {k}
  /\ UNCHANGED <<serverUp, apiKey, readyState, sessions, ruleTemplates, received,
                 httpCalls>>
  /\ UNCHANGED clientVars

Next ==
  \/ \E c \in Conns : OnConnection(c)
  \/ \E c \in Conns : OnClose(c)
  \/ \E c \in Conns, message \in Messages : OnMessage(c, message)
  \/ \E k \in pending, outcome \in ServiceOutcomes \cup {ThrewBeforeFetch} :
       ResumeHandler(k, outcome)

Spec == Init /\ [][Next]_vars

(***************************************************************************)
(* The microtask that resumes a handler whose call threw before fetch is   *)
(* run by the event loop; a fetch settles only when the service answers.   *)
(***************************************************************************)
ResumeRejected ==
  \E k \in pending : ~k.fetching /\ ResumeHandler(k, ThrewBeforeFetch)

FairSpec == Spec /\ WF_vars(ResumeRejected)

(***************************************************************************)
(* The client's handler of a modify response (triggerModifyRule): every    *)
(* item becomes a suggestion whose range is taken from the ruleContext of  *)
(* the request; a column of 0 is replaced by 1 resp. by the last column of *)
(* the end line, an empty insertText by the label.                         *)
(***************************************************************************)
modifySuggestions(items, ruleContext, lineMaxColumn) ==
  [i \in 1..Len(items) |->
     [label |-> items[i].label,
      detail |-> items[i].detail,
      insertText |-> IF items[i].insertText # <<>> THEN items[i].insertText
                     ELSE <<items[i].label>>,
      range |-> [startLineNumber |-> ruleContext.startLine,
                 startColumn |-> IF ruleContext.startColumn # 0
                                 THEN ruleContext.startColumn ELSE 1,
                 endLineNumber |-> ruleContext.endLine,
                 endColumn |-> IF ruleContext.endColumn # 0
                               THEN ruleContext.endColumn ELSE lineMaxColumn]]]

(***************************************************************************)
(* detectRuleAtPosition (utils/lsp-client.ts).  Line numbers of the source *)
(* are 0-based inside the function and 1-based in its argument and in its  *)
(* result; lines[i] of the source is lines[i + 1] here.                    *)
(***************************************************************************)
\* /^\s*rule\s+"([^"]+)"/i on one line: the first capture, if the line matches
ruleMatch(line) ==
  LET r == trimStart(line)
      afterSpaces == IF r = <<>> THEN <<>> ELSE trimStart(Tail(r))
      close == indexOf(afterSpaces, "\"", 2)
  IN  IF /\ r # <<>>
         /\ lower(Head(r)) = "rule"
         /\ Len(afterSpaces) < Len(r) - 1
         /\ afterSpaces # <<>>
         /\ Head(afterSpaces) = "\""
         /\ close > 2
      THEN Some(SubSeq(afterSpaces, 2, close - 1))
      ELSE None

\* /^\s*end\s*$/i on one line
endMatch(line) ==
  LET t == trim(line)
  IN  Len(t) = 1 /\ lower(t[1]) = "end"

\* the change of braceCount over the characters of one line
braces(line) ==
  Cardinality({i \in 1..Len(line) : line[i] = "{"})
    - Cardinality({i \in 1..Len(line) : line[i] = "}"})

\* braceCount after the forward scan, started at line from, has read line i
RECURSIVE braceCountAt(_, _, _)
braceCountAt(lines, from, i) ==
  IF i < from THEN 0
  ELSE braceCountAt(lines, from, i - 1) + braces(lines[i + 1])

\* the number of characters of the atoms of the editor's documents
charLength(a) ==
  CASE a \in {"rule", "RULE", "    ", "when", "then"} -> 4
    [] a \in {"end", "End"} -> 3
    [] a \in {"R1", "R2", "G1"} -> 2
    [] OTHER -> 1

\* String.prototype.length
RECURSIVE length(_)
length(s) == IF s = <<>> THEN 0 ELSE charLength(Head(s)) + length(Tail(s))

\* a call that ended in an exception
Threw == [threw |-> TRUE]
Returned(v) == [threw |-> FALSE, value |-> v]

\* mutant: the rule is looked for from the top of the document
detectRuleAtPosition_firstHeader(content, lineNumber) ==
  LET lines == split(content, "\n")
      currentLineNum == lineNumber - 1
      starts == {i \in 0..currentLineNum : ruleMatch(lines[i + 1]) # None}
      ruleStartLine == IF starts = {} THEN -1
                       ELSE CHOOSE i \in starts : \A j \in starts : i <= j
      ends == {i \in ruleStartLine..(Len(lines) - 1) :
                 i >= 0 /\ endMatch(lines[i + 1])
                        /\ braceCountAt(lines, ruleStartLine, i) = 0}
      ruleEndLine == IF ends = {} THEN -1
                     ELSE CHOOSE i \in ends : \A j \in ends : i <= j
  IN  IF currentLineNum >= Len(lines) THEN Threw
      ELSE IF starts = {} THEN Returned(None)
      ELSE IF /\ ruleStartLine >= 0 /\ ruleEndLine >= 0
              /\ currentLineNum >= ruleStartLine /\ currentLineNum <= ruleEndLine
      THEN Returned(Some(
             [fullRule |-> join(SubSeq(lines, ruleStartLine + 1, ruleEndLine + 1), "\n"),
              ruleName |-> Get(ruleMatch(lines[ruleStartLine + 1])),
              startLine |-> ruleStartLine + 1,
              endLine |-> ruleEndLine + 1,
              startColumn |-> length(lines[ruleStartLine + 1])
                                - length(trimStart(lines[ruleStartLine + 1])) + 1,
              endColumn |-> length(lines[ruleEndLine + 1]) + 1,
              isInsideRule |-> TRUE]))
      ELSE Returned(None)

\* mutant: a line that is solely end closes the rule at any brace depth
detectRuleAtPosition_ignoresBraces(content, lineNumber) ==
  LET lines == split(content, "\n")
      currentLineNum == lineNumber - 1
      starts == {i \in 0..currentLineNum : ruleMatch(lines[i + 1]) # None}
      ruleStartLine == IF starts = {} THEN -1
                       ELSE CHOOSE i \in starts : \A j \in starts : i >= j
      ends == {i \in ruleStartLine..(Len(lines) - 1) :
                 i >= 0 /\ endMatch(lines[i + 1])}
      ruleEndLine == IF ends = {} THEN -1
                     ELSE CHOOSE i \in ends : \A j \in ends : i <= j
  IN  IF currentLineNum >= Len(lines) THEN Threw
      ELSE IF starts = {} THEN Returned(None)
      ELSE IF /\ ruleStartLine >= 0 /\ ruleEndLine >= 0
              /\ currentLineNum >= ruleStartLine /\ currentLineNum <= ruleEndLine
      THEN Returned(Some(
             [fullRule |-> join(SubSeq(lines, ruleStartLine + 1, ruleEndLine + 1), "\n"),
              ruleName |-> Get(ruleMatch(lines[ruleStartLine + 1])),
              startLine |-> ruleStartLine + 1,
              endLine |-> ruleEndLine + 1,
              startColumn |-> length(lines[ruleStartLine + 1])
                                - length(trimStart(lines[ruleStartLine + 1])) + 1,
              endColumn |-> length(lines[ruleEndLine + 1]) + 1,
              isInsideRule |-> TRUE]))
      ELSE Returned(None)

(***************************************************************************)
(* The backward scan stops at the nearest header at or above the cursor    *)
(* line; the forward scan stops at the first line after it that is solely  *)
(* end while braceCount is 0.  A cursor line beyond the last line makes    *)
(* lines[i] undefined and line.match throw.                                *)
(***************************************************************************)
detectRuleAtPosition(content, lineNumber) ==
  LET lines == split(content, "\n")
      currentLineNum == lineNumber - 1
      starts == {i \in 0..currentLineNum : ruleMatch(lines[i + 1]) # None}
      ruleStartLine == IF starts = {} THEN -1
                       ELSE CHOOSE i \in starts : \A j \in starts : i >= j
      ends == {i \in ruleStartLine..(Len(lines) - 1) :
                 i >= 0 /\ endMatch(lines[i + 1])
                        /\ braceCountAt(lines, ruleStartLine, i) = 0}
      ruleEndLine == IF ends = {} THEN -1
                     ELSE CHOOSE i \in ends : \A j \in ends : i <= j
  IN  IF currentLineNum >= Len(lines) THEN Threw
      ELSE IF starts = {} THEN Returned(None)
      ELSE IF /\ ruleStartLine >= 0 /\ ruleEndLine >= 0
              /\ currentLineNum >= ruleStartLine /\ currentLineNum <= ruleEndLine
      THEN Returned(Some(
             [fullRule |-> join(SubSeq(lines, ruleStartLine + 1, ruleEndLine + 1), "\n"),
              ruleName |-> Get(ruleMatch(lines[ruleStartLine + 1])),
              startLine |-> ruleStartLine + 1,
              endLine |-> ruleEndLine + 1,
              startColumn |-> length(lines[ruleStartLine + 1])
                                - length(trimStart(lines[ruleStartLine + 1])) + 1,
              endColumn |-> length(lines[ruleEndLine + 1]) + 1,
              isInsideRule |-> TRUE]))
      ELSE Returned(None)

(***************************************************************************)
(* The documents of the editor: up to MaxLines lines, each a rule header   *)
(* (plain, or indented and in capitals), a terminator (plain, or indented, *)
(* capitalized and followed by a blank), a line that opens or closes a     *)
(* brace, or a line that has a header after other text.                    *)
(***************************************************************************)
DocumentLines ==
  {<<"rule", " ", "\"", "R1", "\"">>,
   <<"    ", "RULE", " ", "\"", "R2", "\"">>,
   <<"end">>,
   <<"    ", "End", " ">>,
   <<"x", " ", "{">>,
   <<"}">>,
   <<"x", " ", "rule", " ", "\"", "R1", "\"">>}
Documents ==
  {join(ls, "\n") : ls \in UNION {[1..n -> DocumentLines] : n \in 1..MaxLines}}

\* the process that runs startLSPServer has not been started
ServerNotStarted ==
  /\ serverUp = FALSE
  /\ apiKey = FALSE
  /\ readyState = [c \in Conns |-> "idle"]
  /\ sessions = [c \in {} |-> newSession]
  /\ ruleTemplates = <<TemplateFlagHighPremium>>
  /\ pending = {}
  /\ outbox = [c \in Conns |-> <<>>]
  /\ received = <<>>
  /\ httpCalls = {}

\* a document is in the editor and the cursor is on one of its lines
LocatorInit ==
  /\ ServerNotStarted
  /\ editorModel \in Documents
  /\ editorPosition \in 1..Len(split(editorModel, "\n"))
  /\ detectedRule = NotRun
  /\ factObjectInput = Some(EmptyObject)
  /\ extractedSchema = NotRun
  /\ EditIdle
  /\ SocketIdle

\* the context-menu action calls detectRuleAtPosition(model, position)
DetectRule ==
  /\ ~detectedRule.done
  /\ detectedRule' = [done |-> TRUE,
                      result |-> detectRuleAtPosition(editorModel, editorPosition)]
  /\ UNCHANGED <<serverVars, editorModel, editorPosition, factObjectInput,
                 extractedSchema, editVars, socketVars>>

LocatorNext == DetectRule

LocatorSpec == LocatorInit /\ [][LocatorNext]_vars

(***************************************************************************)
(* The fact objects handed to extractFactSchema: parsed JSON objects with  *)
(* up to MaxMembers members, distinct keys, and a value of every JSON type.*)
(* The argument may also be absent (null or undefined).                    *)
(***************************************************************************)
FactKeys == {"premium", "loyalCustomer", "tags"}
FactValues ==
  {[kind |-> "null", json |-> "null"],
   [kind |-> "array", json |-> "[1]"],
   [kind |-> "object", json |-> "{}"],
   [kind |-> "string", json |-> "\"gold\""],
   [kind |-> "number", json |-> "600"],
   [kind |-> "boolean", json |-> "true"]}
FactObjects ==
  {o \in UNION {[1..n -> [name : FactKeys, value : FactValues]] : n \in 0..MaxMembers} :
     \A i, j \in 1..Len(o) : o[i].name = o[j].name => i = j}

SchemaInit ==
  /\ ServerNotStarted
  /\ editorModel = <<>>
  /\ editorPosition = 1
  /\ detectedRule = NotRun
  /\ factObjectInput \in Optional(FactObjects)
  /\ extractedSchema = NotRun
  /\ EditIdle
  /\ SocketIdle

\* Object.entries(factObject): a TypeError for null and for undefined
objectEntries(factObject) ==
  IF factObject = None THEN Threw ELSE Returned(Get(factObject))

\* a call extractFactSchema(factObject); the function has no try block, so
\* the error of Object.entries leaves it
ExtractSchema ==
  /\ ~extractedSchema.done
  /\ extractedSchema' =
       [done |-> TRUE,
        result |-> IF objectEntries(factObjectInput).threw THEN Threw
                   ELSE Returned(extractFactSchema(objectEntries(factObjectInput).value))]
  /\ UNCHANGED <<serverVars, editorModel, editorPosition, detectedRule,
                 factObjectInput, editVars, socketVars>>

SchemaNext == ExtractSchema

SchemaSpec == SchemaInit /\ [][SchemaNext]_vars

(***************************************************************************)
(* The helper functions of the template library (lsp-server.js 454-475).   *)
(* They work on the module's ruleTemplates array, which is passed here as  *)
(* a parameter.  A template is a record; its metadata members are optional *)
(* (buildCompletionsFromTemplates has a default for each of them).         *)
(***************************************************************************)
\* ruleTemplates.findIndex(t => t.label === label), 0 for -1
findIndex(templates, label) ==
  LET hits == {i \in 1..Len(templates) : templates[i].label = label}
  IN  IF hits = {} THEN 0 ELSE CHOOSE i \in hits : \A j \in hits : i <= j

\* ruleTemplates.find(t => t.label === label)
getTemplateByLabel(templates, label) ==
  IF findIndex(templates, label) = 0 THEN None
  ELSE Some(templates[findIndex(templates, label)])

\* { ...a, ...b }: the members of a, overridden and extended by those of b
spread(a, b) ==
  [f \in DOMAIN a \cup DOMAIN b |-> IF f \in DOMAIN b THEN b[f] ELSE a[f]]

\* the ruleTemplates array after upsertTemplate(template)
upsertTemplate(templates, template) ==
  LET index == findIndex(templates, template.label)
  IN  IF index > 0
      THEN [templates EXCEPT ![index] = spread(templates[index], template)]
      ELSE Append(templates, template)

\* the templates handed to upsertTemplate: complete records, and records
\* that have a label and a rule text only
TemplateLabels ==
  {"Flag high premium greater than 500", "Flag loyal customer", "Review large quote"}
TemplateInputs ==
  [label : TemplateLabels, detail : {"DRL Rule Template", "Custom"},
   documentation : {"A custom template"}, ruleContent : {Drl1, Rule1},
   kind : {14}, insertTextRules : {4}]
    \cup [label : TemplateLabels, ruleContent : {Drl1, Rule1}]

\* the module has been loaded; nothing has been upserted
TemplateInit == ServerNotStarted /\ ClientIdle

UpsertTemplate(template) ==
  /\ ruleTemplates' = upsertTemplate(ruleTemplates, template)
  /\ UNCHANGED <<serverUp, apiKey, readyState, sessions, pending, outbox, received,
                 httpCalls>>
  /\ UNCHANGED clientVars

TemplateNext == \E template \in TemplateInputs : UpsertTemplate(template)

TemplateSpec == TemplateInit /\ [][TemplateNext]_vars

(***************************************************************************)
(* The editor and the suggestions dropdown (components/EditorWithDiff.tsx  *)
(* and the request functions of utils/lsp-client.ts).  The socket is open  *)
(* and the response arrives while its handler is registered; the ids and   *)
(* the timers of the requests are the subject of RequestSpec.              *)
(*                                                                         *)
(* Monaco is a library: a position is a line and a column, both 1-based;   *)
(* a range given to executeEdits is first validated, that is, its lines    *)
(* are clamped to the lines of the model and its columns to the columns of *)
(* their lines.  A column inside an atom is taken at the atom's start.     *)
(***************************************************************************)
\* the columns of a line at which an atom starts or the line ends
boundaryColumns(line) == {length(SubSeq(line, 1, k)) + 1 : k \in 0..Len(line)}

\* the number of atoms of the line that lie before the column
atomsBefore(line, column) ==
  LET ks == {k \in 0..Len(line) : length(SubSeq(line, 1, k)) + 1 <= column}
  IN  CHOOSE k \in ks : \A j \in ks : k >= j

clamp(n, low, high) == IF n < low THEN low ELSE IF n > high THEN high ELSE n

\* model.validateRange
validateRange(content, range) ==
  LET ls == split(content, "\n")
      sl == clamp(range.startLineNumber, 1, Len(ls))
      el == clamp(range.endLineNumber, 1, Len(ls))
  IN  [startLineNumber |-> sl,
       startColumn |-> clamp(range.startColumn, 1, length(ls[sl]) + 1),
       endLineNumber |-> el,
       endColumn |-> clamp(range.endColumn, 1, length(ls[el]) + 1)]

\* editor.executeEdits(source, [{range, text}]): the model's new value
executeEdits(content, range, insertText) ==
  LET ls == split(content, "\n")
      r == validateRange(content, range)
      head == SubSeq(ls, 1, r.startLineNumber - 1)
                \o <<SubSeq(ls[r.startLineNumber], 1,
                            atomsBefore(ls[r.startLineNumber], r.startColumn))>>
      tail == <<SubSeq(ls[r.endLineNumber],
                       atomsBefore(ls[r.endLineNumber], r.endColumn) + 1,
                       Len(ls[r.endLineNumber]))>>
                \o SubSeq(ls, r.endLineNumber + 1, Len(ls))
  IN  join(head, "\n") \o insertText \o join(tail, "\n")

\* mutant: a suggestion with a multi-line range replaces whole lines
handleSuggestionSelect_wholeLines(content, position, suggestion) ==
  LET suggestionRange == suggestion.range
  IN  IF suggestion.insertText = <<>> THEN content
      ELSE IF /\ suggestionRange.startLineNumber # 0
              /\ suggestionRange.endLineNumber # 0
              /\ suggestionRange.startLineNumber # suggestionRange.endLineNumber
      THEN executeEdits(content,
             [startLineNumber |-> suggestionRange.startLineNumber,
              startColumn |-> 1,
              endLineNumber |-> suggestionRange.endLineNumber,
              endColumn |-> 1000],
             suggestion.insertText)
      ELSE executeEdits(content,
             [startLineNumber |-> position.lineNumber, startColumn |-> position.column,
              endLineNumber |-> position.lineNumber, endColumn |-> position.column],
             suggestion.insertText)

(***************************************************************************)
(* handleSuggestionSelect: the model's value after the user has chosen a   *)
(* suggestion.  A range over several lines is replaced by the text; any    *)
(* other suggestion is inserted at the cursor.                             *)
(***************************************************************************)
handleSuggestionSelect(content, position, suggestion) ==
  LET suggestionRange == suggestion.range
  IN  IF suggestion.insertText = <<>> THEN content
      ELSE IF /\ suggestionRange.startLineNumber # 0
              /\ suggestionRange.endLineNumber # 0
              /\ suggestionRange.startLineNumber # suggestionRange.endLineNumber
      THEN executeEdits(content,
             [startLineNumber |-> suggestionRange.startLineNumber,
              startColumn |-> IF suggestionRange.startColumn # 0
                              THEN suggestionRange.startColumn ELSE 1,
              endLineNumber |-> suggestionRange.endLineNumber,
              endColumn |-> IF suggestionRange.endColumn # 0
                            THEN suggestionRange.endColumn ELSE 1000],
             suggestion.insertText)
      ELSE executeEdits(content,
             [startLineNumber |-> position.lineNumber, startColumn |-> position.column,
              endLineNumber |-> position.lineNumber, endColumn |-> position.column],
             suggestion.insertText)

\* sendCompletionRequest's handler: the suggestions of a generate response,
\* each with the empty range at the position of the request
completionSuggestions(items, position) ==
  [i \in 1..Len(items) |->
     [label |-> items[i].label,
      detail |-> items[i].detail,
      insertText |-> IF items[i].insertText # <<>> THEN items[i].insertText
                     ELSE <<items[i].label>>,
      range |-> [startLineNumber |-> position.lineNumber,
                 startColumn |-> position.column,
                 endLineNumber |-> position.lineNumber,
                 endColumn |-> position.column]]]

\* the documents in the editor when a request is made: a rule with a brace
\* pair in its body, and an indented rule that follows a line of text
EditorDocuments ==
  {join(<<<<"rule", " ", "\"", "R1", "\"">>, <<"x", " ", "{">>, <<"}">>, <<"end">>>>, "\n"),
   join(<<<<"x">>, <<"    ", "RULE", " ", "\"", "R2", "\"">>, <<"    ", "End", " ">>>>, "\n")}

\* the positions of a document: a line, and a column at an atom boundary
Positions(content) ==
  LET ls == split(content, "\n")
  IN  {[lineNumber |-> l, column |-> c] :
         l \in 1..Len(ls), c \in UNION {boundaryColumns(ls[n]) : n \in 1..Len(ls)}}
      \cap {p \in [lineNumber : 1..Len(ls), column : 1..(MaxColumn * 3)] :
              p.column \in boundaryColumns(ls[p.lineNumber])}

\* the items of the server's responses: a modified rule, a generated rule
ModifyItems ==
  {<<[label |-> "Modified Rule", detail |-> "Modified DRL Rule", insertText |-> Drl1]>>,
   <<[label |-> "Modified Rule", detail |-> "Modified DRL Rule", insertText |-> <<>>]>>}
GenerateItems ==
  {<<[label |-> "Generated DRL Rule", detail |-> "reasoning", insertText |-> Drl1]>>}

EditInit ==
  /\ ServerNotStarted
  /\ editorModel \in EditorDocuments
  /\ \E p \in Positions(editorModel) :
       editorPosition = p.lineNumber /\ editorColumn = p.column
  /\ detectedRule = NotRun
  /\ factObjectInput = Some(EmptyObject)
  /\ extractedSchema = NotRun
  /\ clientRequest = None
  /\ shownSuggestions = <<>>
  /\ pendingModifyRuleContext = None
  /\ SocketConnected

\* the user may make a request while the document has room in the editor
CanRequest ==
  /\ clientRequest = None
  /\ shownSuggestions = <<>>
  /\ Len(split(editorModel, "\n")) < MaxLines

\* the Modify Rule action of the context menu, the dialog and its submit:
\* detectRuleAtPosition, then triggerModifyRule with the context found; the
\* model follows the editor up to the first modify response
TriggerModify ==
  /\ CanRequest
  /\ pendingModifyRuleContext = None
  /\ LET found == detectRuleAtPosition(editorModel, editorPosition)
     IN  /\ ~found.threw
         /\ found.value # None
         /\ clientRequest' = Some([mode |-> "modify",
                                   ruleContext |-> Get(found.value),
                                   existingRule |-> Get(found.value).fullRule])
  /\ UNCHANGED <<serverVars, socketVars, editorModel, editorPosition, detectedRule, factObjectInput,
                 extractedSchema, editorColumn, shownSuggestions, pendingModifyRuleContext>>

\* the Generate Rule dialog's submit: sendCompletionRequest at the cursor
TriggerGenerate ==
  /\ CanRequest
  /\ clientRequest' = Some([mode |-> "generate",
                            position |-> [lineNumber |-> editorPosition,
                                          column |-> editorColumn]])
  /\ UNCHANGED <<serverVars, socketVars, editorModel, editorPosition, detectedRule, factObjectInput,
                 extractedSchema, editorColumn, shownSuggestions, pendingModifyRuleContext>>

\* the user types while the request is in flight: a new first line, or the
\* first line of the document as loaded deleted
EditDocument ==
  /\ clientRequest # None
  /\ LET ls == split(editorModel, "\n")
     IN  \/ /\ Len(ls) < MaxLines
            /\ editorModel' = <<"x", "\n">> \o editorModel
            /\ editorPosition' = editorPosition + 1
         \/ /\ Len(ls) > 1
            /\ editorModel \in EditorDocuments
            /\ editorModel' = join(Tail(ls), "\n")
            /\ editorPosition' = IF editorPosition > 1 THEN editorPosition - 1 ELSE 1
  /\ editorColumn' = 1
  /\ UNCHANGED <<serverVars, socketVars, detectedRule, factObjectInput, extractedSchema,
                 clientRequest, shownSuggestions, pendingModifyRuleContext>>

\* the 'message' handler of the request gets the response: the suggestions
\* are built and handed to the dropdown (onSuggestionsReady)
ReceiveResponse(items) ==
  /\ clientRequest # None
  /\ LET request == Get(clientRequest)
     IN  IF request.mode = "modify"
         THEN /\ items \in ModifyItems
              /\ shownSuggestions' = modifySuggestions(items, request.ruleContext, MaxColumn)
              /\ pendingModifyRuleContext' =
                   Some([ruleContext |-> [request.ruleContext EXCEPT
                                            !.fullRule = request.existingRule,
                                            !.ruleName = <<>>],
                         existingRule |-> request.existingRule])
         ELSE /\ items \in GenerateItems
              /\ shownSuggestions' = completionSuggestions(items, request.position)
              /\ UNCHANGED pendingModifyRuleContext
  /\ clientRequest' = None
  /\ UNCHANGED <<serverVars, socketVars, editorModel, editorPosition, detectedRule, factObjectInput,
                 extractedSchema, editorColumn>>

\* the user chooses an item of the dropdown: handleSuggestionSelect; the
\* cursor ends up somewhere in the new document
SelectSuggestion(i) ==
  /\ i \in 1..Len(shownSuggestions)
  /\ editorModel' = handleSuggestionSelect(editorModel,
                      [lineNumber |-> editorPosition, column |-> editorColumn],
                      shownSuggestions[i])
  /\ shownSuggestions' = <<>>
  /\ \E p \in Positions(editorModel') :
       editorPosition' = p.lineNumber /\ editorColumn' = p.column
  /\ UNCHANGED <<serverVars, socketVars, detectedRule, factObjectInput, extractedSchema,
                 clientRequest, pendingModifyRuleContext>>

EditNext ==
  \/ TriggerModify
  \/ TriggerGenerate
  \/ EditDocument
  \/ \E items \in ModifyItems \cup GenerateItems : ReceiveResponse(items)
  \/ \E i \in 1..Len(shownSuggestions) : SelectSuggestion(i)

EditSpec == EditInit /\ [][EditNext]_vars

(***************************************************************************)
(* The completion requests of the client (utils/lsp-client.ts).  Each of   *)
(* the five request functions takes Date.now() as the id of its request,   *)
(* registers a 'message' listener on the socket, sends the request and     *)
(* arms its timers.  A request of the model records all of this:           *)
(*   kind     the function that made it                                    *)
(*   sent     the request went out (the socket was open)                   *)
(*   id       its id, the time at which it was made                        *)
(*   socket   the socket the listener was added to                         *)
(*   handler  the listener is registered                                   *)
(*   timers   the armed timers, each with the time at which it is due      *)
(*   outcome  "pending"; "items" once the listener has passed a response   *)
(*            on (promise resolved, or onSuggestionsReady called);         *)
(*            "empty" once the promise is resolved with no suggestions     *)
(*   consumed history: the requests whose responses the listener took      *)
(*   answered history: the response to this request has arrived            *)
(*   failed   history: a timer of the request ended in a TypeError         *)
(* Time passes between events; a timer that is due runs before time moves  *)
(* on.                                                                     *)
(***************************************************************************)
\* setTimeout delays of the request functions, in milliseconds
CompletionTimeout == 45000
InlineTimeout == 2000
GhostTimeout == 3000
CleanupDelay == 5000

\* the functions whose caller holds a promise
PromiseKinds == {"sendCompletionRequestPromise", "sendInlineCompletionRequestPromise",
                 "requestInlineCompletionsFromServer"}
\* the functions that hand the suggestions to the dropdown
DropdownKinds == {"sendCompletionRequest", "triggerModifyRule"}
RequestKinds == PromiseKinds \cup DropdownKinds

\* the timers a request function arms at the time t
timersOf(kind, t) ==
  CASE kind = "sendCompletionRequestPromise" ->
         {[what |-> "timeout", due |-> t + CompletionTimeout]}
    [] kind = "sendInlineCompletionRequestPromise" ->
         {[what |-> "cleanup", due |-> t + InlineTimeout]}
    [] kind = "requestInlineCompletionsFromServer" ->
         {[what |-> "timeout", due |-> t + GhostTimeout]}
    [] kind = "sendCompletionRequest" ->
         {[what |-> "timeout", due |-> t + CompletionTimeout],
          [what |-> "cleanup", due |-> t + CleanupDelay]}
    [] kind = "triggerModifyRule" ->
         {[what |-> "cleanup", due |-> t + CleanupDelay]}

\* ws && ws.readyState === WebSocket.OPEN
wsOpen == ws # None /\ webSockets[Get(ws)] = "open"

\* the request a function makes on the open socket
newRequest(kind) ==
  [kind |-> kind, sent |-> TRUE, id |-> now, socket |-> Get(ws), handler |-> TRUE,
   timers |-> timersOf(kind, now), outcome |-> "pending", consumed |-> {},
   answered |-> FALSE, failed |-> FALSE]

\* the socket is not open: the promise is resolved with no suggestions at
\* once, nothing is sent or registered
unsentRequest(kind) ==
  [kind |-> kind, sent |-> FALSE, id |-> now, socket |-> 0, handler |-> FALSE,
   timers |-> {}, outcome |-> "empty", consumed |-> {},
   answered |-> FALSE, failed |-> FALSE]

RequestInit ==
  /\ ServerNotStarted
  /\ EditIdle
  /\ editorModel = <<>>
  /\ editorPosition = 1
  /\ detectedRule = NotRun
  /\ factObjectInput = Some(EmptyObject)
  /\ extractedSchema = NotRun
  /\ SocketConnected

\* a request function is called; sendCompletionRequest and triggerModifyRule
\* return without any effect when the socket is not open
SendRequest(kind) ==
  /\ editorMounted
  /\ Len(requests) < MaxRequests
  /\ IF wsOpen THEN requests' = Append(requests, newRequest(kind))
     ELSE /\ kind \in PromiseKinds
          /\ requests' = Append(requests, unsentRequest(kind))
  /\ UNCHANGED <<serverVars, editorModel, editorPosition, detectedRule, factObjectInput,
                 extractedSchema, editVars, ws, isConnected, webSockets, editorMounted,
                 lspInitialized, invocations, now>>

\* the listener of the request takes the message: message.id === requestId
\* && message.result.  clearTimeout(timeout) where the function has it, the
\* listener is removed, the suggestions are passed on.
onMessage(request, k) ==
  [request EXCEPT
     !.timers = {t \in request.timers : t.what # "timeout"},
     !.handler = FALSE,
     !.outcome = IF request.outcome = "pending" THEN "items" ELSE request.outcome,
     !.consumed = request.consumed \cup {k}]

\* the response to request k arrives on its socket: the 'message' event is
\* dispatched to every listener registered on the socket.  A socket that is
\* not open dispatches no message.  hasResult: the response has a result
\* member (an error response has none).
Response(k, hasResult) ==
  /\ k \in 1..Len(requests)
  /\ requests[k].sent
  /\ ~requests[k].answered
  /\ webSockets[requests[k].socket] = "open"
  /\ requests' =
       [j \in 1..Len(requests) |->
          LET request == [requests[j] EXCEPT !.answered = (j = k) \/ @]
          IN  IF /\ request.handler
                 /\ request.socket = requests[k].socket
                 /\ request.id = requests[k].id
                 /\ hasResult
              THEN onMessage(request, k)
              ELSE request]
  /\ UNCHANGED <<serverVars, editorModel, editorPosition, detectedRule, factObjectInput,
                 extractedSchema, editVars, ws, isConnected, webSockets, editorMounted,
                 lspInitialized, invocations, now>>

\* the callback of a timer of the request: removeEventListener on the
\* socket, then resolve where the function holds a promise.
\* requestInlineCompletionsFromServer uses the socket it captured; the
\* others evaluate ws!.removeEventListener, a TypeError when ws is null,
\* and the callback ends there.
onTimer(request, t) ==
  LET rest == [request EXCEPT !.timers = @ \ {t}]
  IN  IF request.kind # "requestInlineCompletionsFromServer" /\ ws = None
      THEN [rest EXCEPT !.failed = TRUE]
      ELSE [rest EXCEPT
              !.handler = IF request.kind = "requestInlineCompletionsFromServer"
                             \/ ws = Some(request.socket)
                          THEN FALSE ELSE request.handler,
              !.outcome = IF request.kind \in PromiseKinds /\ request.outcome = "pending"
                          THEN "empty" ELSE request.outcome]

\* a timer that is due runs
FireTimer(k, t) ==
  /\ k \in 1..Len(requests)
  /\ t \in requests[k].timers
  /\ t.due <= now
  /\ requests' = [requests EXCEPT ![k] = onTimer(requests[k], t)]
  /\ UNCHANGED <<serverVars, editorModel, editorPosition, detectedRule, factObjectInput,
                 extractedSchema, editVars, ws, isConnected, webSockets, editorMounted,
                 lspInitialized, invocations, now>>

\* the times at which the armed timers are due
dueTimes == UNION {{t.due : t \in requests[k].timers} : k \in 1..Len(requests)}

\* time passes: a millisecond while the requests are being made, or up to
\* the next time at which a timer is due; never past a timer that is due
Advance(t) ==
  /\ t > now
  /\ \/ t = now + 1 /\ now < MaxTick
     \/ t \in dueTimes
  /\ \A d \in dueTimes : t <= d
  /\ now' = t
  /\ UNCHANGED <<serverVars, editorModel, editorPosition, detectedRule, factObjectInput,
                 extractedSchema, editVars, ws, isConnected, webSockets, editorMounted,
                 lspInitialized, invocations, requests>>

\* the server or the network closes a socket
SocketClosed(s) ==
  /\ s \in 1..Len(webSockets)
  /\ webSockets[s] = "open"
  /\ webSockets' = [webSockets EXCEPT ![s] = "closed"]
  /\ UNCHANGED <<serverVars, editorModel, editorPosition, detectedRule, factObjectInput,
                 extractedSchema, editVars, ws, isConnected, editorMounted,
                 lspInitialized, invocations, now, requests>>

\* the component is unmounted: its cleanup calls disconnectLSP, which closes
\* the socket held by ws and sets ws to null, and resets lspInitialized.  A
\* call of initializeLSP that awaits the opening of that socket is rejected
\* (onerror) and returns false.
Unmount ==
  /\ editorMounted
  /\ editorMounted' = FALSE
  /\ webSockets' = IF ws = None THEN webSockets
                   ELSE [webSockets EXCEPT ![Get(ws)] = "closed"]
  /\ ws' = None
  /\ isConnected' = FALSE
  /\ lspInitialized' = FALSE
  /\ invocations' = [i \in 1..Len(invocations) |->
                       IF invocations[i].pc = "connecting" /\ ws = Some(invocations[i].socket)
                       THEN [invocations[i] EXCEPT !.pc = "returned",
                                                   !.result = Some(FALSE)]
                       ELSE invocations[i]]
  /\ UNCHANGED <<serverVars, editorModel, editorPosition, detectedRule, factObjectInput,
                 extractedSchema, editVars, now, requests>>

RequestNext ==
  \/ \E kind \in RequestKinds : SendRequest(kind)
  \/ \E k \in 1..Len(requests), hasResult \in BOOLEAN : Response(k, hasResult)
  \/ \E k \in 1..Len(requests) : \E t \in requests[k].timers : FireTimer(k, t)
  \/ \E t \in dueTimes \cup {now + 1} : Advance(t)
  \/ \E s \in 1..Len(webSockets) : SocketClosed(s)
  \/ Unmount

RequestSpec == RequestInit /\ [][RequestNext]_vars

\* time goes on and a timer that is due runs
FairRequestSpec ==
  /\ RequestSpec
  /\ WF_vars(\E t \in dueTimes \cup {now + 1} : Advance(t))
  /\ WF_vars(\E k \in 1..Len(requests) : \E t \in requests[k].timers : FireTimer(k, t))

(***************************************************************************)
(* The connection of the client: the effect of EditorWithDiff that calls   *)
(* initializeLSP, the calls of initializeLSP and the sockets they create.  *)
(* A call is at "loadMonaco" (it awaits loadMonaco()), at "connecting" (it *)
(* awaits the opening of the socket it created) or has "returned".  What   *)
(* follows the opening of the socket in the call (sendContext, the         *)
(* providers, isConnected = true, return) and the then-callback of the     *)
(* effect run without another event in between and are one step.           *)
(***************************************************************************)
ConnectInit ==
  /\ ServerNotStarted
  /\ EditIdle
  /\ editorModel = <<>>
  /\ editorPosition = 1
  /\ detectedRule = NotRun
  /\ factObjectInput = Some(EmptyObject)
  /\ extractedSchema = NotRun
  /\ ws = None
  /\ isConnected = FALSE
  /\ webSockets = <<>>
  /\ editorMounted = TRUE
  /\ lspInitialized = FALSE
  /\ invocations = <<>>
  /\ now = 0
  /\ requests = <<>>

\* the effect runs, on mount and whenever value, factObject or bddTests
\* change: it returns if lspInitialized.current, else it calls initializeLSP
RunInitEffect ==
  /\ editorMounted
  /\ ~lspInitialized
  /\ Len(invocations) < MaxInvocations
  /\ invocations' = Append(invocations, [pc |-> "loadMonaco", socket |-> 0,
                                         result |-> None])
  /\ UNCHANGED <<serverVars, editorModel, editorPosition, detectedRule, factObjectInput,
                 extractedSchema, editVars, ws, isConnected, webSockets, editorMounted,
                 lspInitialized, now, requests>>

\* the call goes on after await loadMonaco(): it returns true if
\* isConnected && ws, else it creates a socket and assigns it to ws
AfterLoad(i) ==
  /\ i \in 1..Len(invocations)
  /\ invocations[i].pc = "loadMonaco"
  /\ IF isConnected /\ ws # None
     THEN /\ invocations' = [invocations EXCEPT ![i] =
                               [@ EXCEPT !.pc = "returned", !.result = Some(TRUE)]]
          /\ lspInitialized' = TRUE
          /\ UNCHANGED <<ws, webSockets>>
     ELSE /\ webSockets' = Append(webSockets, "connecting")
          /\ ws' = Some(Len(webSockets) + 1)
          /\ invocations' = [invocations EXCEPT ![i] =
                               [@ EXCEPT !.pc = "connecting",
                                         !.socket = Len(webSockets) + 1]]
          /\ UNCHANGED lspInitialized
  /\ UNCHANGED <<serverVars, editorModel, editorPosition, detectedRule, factObjectInput,
                 extractedSchema, editVars, isConnected, editorMounted, now, requests>>

\* the calls that await the socket
awaiting(s) ==
  {i \in 1..Len(invocations) : invocations[i].pc = "connecting" /\ invocations[i].socket = s}

\* the calls of the set return the value; the then-callback of the effect
\* sets lspInitialized.current whatever the value is
returnFrom(calls, value) ==
  /\ invocations' = [i \in 1..Len(invocations) |->
                       IF i \in calls
                       THEN [invocations[i] EXCEPT !.pc = "returned", !.result = Some(value)]
                       ELSE invocations[i]]
  /\ IF calls = {} THEN UNCHANGED <<isConnected, lspInitialized>>
     ELSE isConnected' = value /\ lspInitialized' = TRUE

\* the server accepts the socket: onopen resolves the promise of the call
\* that created it, if that call still waits
SocketOpens(s) ==
  /\ s \in 1..Len(webSockets)
  /\ webSockets[s] = "connecting"
  /\ webSockets' = [webSockets EXCEPT ![s] = "open"]
  /\ returnFrom(awaiting(s), TRUE)
  /\ UNCHANGED <<serverVars, editorModel, editorPosition, detectedRule, factObjectInput,
                 extractedSchema, editVars, ws, editorMounted, now, requests>>

\* the connection fails: onerror rejects, the catch block returns false
SocketError(s) ==
  /\ s \in 1..Len(webSockets)
  /\ webSockets[s] = "connecting"
  /\ webSockets' = [webSockets EXCEPT ![s] = "closed"]
  /\ returnFrom(awaiting(s), FALSE)
  /\ UNCHANGED <<serverVars, editorModel, editorPosition, detectedRule, factObjectInput,
                 extractedSchema, editVars, ws, editorMounted, now, requests>>

\* the 5-second timer of the call rejects while the socket is still
\* connecting; the socket is left as it is
ConnectTimeout(i) ==
  /\ i \in 1..Len(invocations)
  /\ invocations[i].pc = "connecting"
  /\ webSockets[invocations[i].socket] = "connecting"
  /\ returnFrom({i}, FALSE)
  /\ UNCHANGED <<serverVars, editorModel, editorPosition, detectedRule, factObjectInput,
                 extractedSchema, editVars, ws, webSockets, editorMounted, now, requests>>

ConnectNext ==
  \/ RunInitEffect
  \/ \E i \in 1..Len(invocations) : AfterLoad(i)
  \/ \E s \in 1..Len(webSockets) : SocketOpens(s)
  \/ \E s \in 1..Len(webSockets) : SocketError(s)
  \/ \E i \in 1..Len(invocations) : ConnectTimeout(i)
  \/ \E s \in 1..Len(webSockets) : SocketClosed(s)
  \/ Unmount

ConnectSpec == ConnectInit /\ [][ConnectNext]_vars

(***************************************************************************)
(* Claims                                                                  *)
(***************************************************************************)
Responses(c) == {outbox[c][i] : i \in 1..Len(outbox[c])}
IsRequest(m) == m.method \in {"initialize/context", "textDocument/completion"}
Suspended(s) == \E k \in pending : k.seq = s
Answered(s) == \E c \in Conns : \E r \in Responses(c) : r.seq = s

\* C1: every response the server has sent carries the id of the request
\* whose handler sent it, also with several requests of one connection in
\* flight.
C1_ResponseCarriesRequestId ==
  \A c \in Conns : \A r \in Responses(c) :
    /\ r.seq \in 1..Len(received)
    /\ IsRequest(received[r.seq])
    /\ r.id = received[r.seq].id

\* two requests of one connection with different ids were in flight together
\* and were answered in the reverse of their arrival order
C1_Witness ==
  \E c \in Conns :
    /\ Len(outbox[c]) = 2
    /\ outbox[c][1].seq > outbox[c][2].seq
    /\ outbox[c][1].id # outbox[c][2].id
    /\ received[outbox[c][1].seq].method = "textDocument/completion"
    /\ received[outbox[c][2].seq].method = "textDocument/completion"

C3_UninitializedAnsweredEmpty ==
  /\ \A c \in Conns : \A r \in Responses(c) :
       (received[r.seq].method = "textDocument/completion"
          /\ ~received[r.seq].initialized) => r.result.items = <<>>
  /\ \A s \in httpCalls : received[s].initialized

\* C4: every suspended generate or modify request is eventually answered,
\* unless its connection does not stay open.
C4_EveryRequestAnswered ==
  \A s \in 1..MaxMsgs :
    Suspended(s) ~> (Answered(s) \/ \A k \in pending : k.seq = s => readyState[k.conn] # "open")

\* C5: while a request of a connection is suspended no later message of
\* that connection is processed, and the responses on a connection are in
\* the arrival order of their requests.
C5_ConnectionFifo ==
  /\ \A k \in pending : \A s \in (k.seq + 1)..Len(received) :
       received[s].conn # k.conn
  /\ \A c \in Conns : \A i, j \in 1..Len(outbox[c]) :
       i < j => outbox[c][i].seq < outbox[c][j].seq

\* C6: when the generation call of a request settles after the request's
\* connection has closed, the server stays up, nothing is sent, no session
\* is created for the connection and nothing changes for the others.
C6_SettleAfterCloseIsDiscarded ==
  [][\A k \in pending :
       (k \notin pending' /\ readyState[k.conn] = "closed") =>
         /\ serverUp'
         /\ outbox' = outbox
         /\ k.conn \notin DOMAIN sessions'
         /\ sessions' = sessions
         /\ readyState' = readyState]_vars

\* a fetch was made for a request, its handler has run to its end, no
\* response went out, and another connection is still served
C6_Witness ==
  \E s \in httpCalls :
    /\ ~Suspended(s)
    /\ ~Answered(s)
    /\ serverUp
    /\ readyState[received[s].conn] = "closed"
    /\ \E b \in Conns : readyState[b] = "open"

\* C7: the handling of a message of connection A leaves the session of
\* every other connection B as it was.
C7_SessionsIsolated ==
  [][\A b \in DOMAIN sessions :
       (Len(received') > Len(received) /\ received'[Len(received')].conn # b) =>
         (b \in DOMAIN sessions' /\ sessions'[b] = sessions[b])]_vars

\* C8: whenever a connection has a request suspended at the generation
\* service, a request arriving on another open connection is handled and
\* answered at once.
C8_OtherConnectionsProceed ==
  \A a, b \in Conns :
    (/\ a # b
     /\ \E k \in pending : k.conn = a /\ k.fetching
     /\ serverUp
     /\ readyState[b] = "open"
     /\ Len(received) < MaxMsgs)
    => \A id \in Ids :
         ENABLED (/\ OnMessage(b, [valid |-> TRUE, method |-> "textDocument/completion",
                                   id |-> id,
                                   params |-> Some([position |-> Some(Position1),
                                                    mode |-> Some("inline"),
                                                    userPrompt |-> None,
                                                    existingRule |-> None,
                                                    ruleContext |-> None])])
                  /\ Len(outbox'[b]) = Len(outbox[b]) + 1)

\* connection b was answered while a request of connection a, received
\* earlier, is still waiting for the generation service
C8_Witness ==
  \E a, b \in Conns : \E k \in pending : \E r \in Responses(b) :
    a # b /\ k.conn = a /\ k.fetching /\ r.seq > k.seq

\* C9: once an initialize/context message has been processed the session
\* is initialized, and an initialized session stays initialized under every
\* step for as long as the connection has its session.
C9_InitializedIsStable ==
  [][\A c \in DOMAIN sessions \cap DOMAIN sessions' :
       LET acked == /\ Len(outbox'[c]) > Len(outbox[c])
                    /\ received'[outbox'[c][Len(outbox'[c])].seq].method
                         = "initialize/context"
       IN  (sessions[c].initialized \/ acked) => sessions'[c].initialized]_vars

\* an initialized session has handled a later message of its connection
C9_Witness ==
  \E c \in DOMAIN sessions :
    /\ sessions[c].initialized
    /\ Len(received) = 2
    /\ received[1].conn = c /\ received[1].method = "initialize/context"
    /\ received[2].conn = c /\ received[2].method # "initialize/context"
    /\ Len(outbox[c]) >= 1

\* C10: the session of a newly accepted connection is uninitialized and
\* empty, whatever sessions exist or existed.
C10_FreshSessionOnConnect ==
  [][\A c \in Conns :
       (readyState[c] = "idle" /\ readyState'[c] = "open") =>
         /\ c \in DOMAIN sessions'
         /\ sessions'[c] = [initialized |-> FALSE, factObject |-> <<>>,
                            factSchema |-> <<>>, bddTests |-> "",
                            documentContent |-> ""]]_vars

\* a connection was accepted after another one had been initialized and closed
C10_Witness ==
  \E a, b \in Conns :
    /\ a # b
    /\ readyState[a] = "closed"
    /\ \E r \in Responses(a) : received[r.seq].method = "initialize/context"
    /\ readyState[b] = "open"
    /\ b \in DOMAIN sessions
    /\ ~sessions[b].initialized

\* a step that handles a message, and the message it handles
MessageHandled == Len(received') = Len(received) + 1
Handled == received'[Len(received')]
IsDidChangeWithText(m) ==
  /\ m.method = "textDocument/didChange"
  /\ m.params # None
  /\ Get(m.params).text # None

\* C11: after a document change carrying text t has been handled, the
\* session's documentContent is t, also for the empty text and for an
\* uninitialized session, and the other session fields are as before.
C11_DidChangeReplacesVerbatim ==
  [][\A c \in DOMAIN sessions :
       (MessageHandled /\ Handled.conn = c /\ IsDidChangeWithText(Handled)) =>
         /\ c \in DOMAIN sessions'
         /\ sessions'[c] = [sessions[c] EXCEPT
                              !.documentContent = Get(Get(Handled.params).text)]]_vars

\* C12: a document change handled directly after the same document change
\* on the same connection leaves the session as it was, and no document
\* change produces a response or an error.
C12_DidChangeIdempotent ==
  [][(MessageHandled /\ Handled.method = "textDocument/didChange") =>
       /\ outbox' = outbox
       /\ serverUp' = serverUp
       /\ pending' = pending
       /\ (/\ received # <<>>
           /\ received[Len(received)].conn = Handled.conn
           /\ received[Len(received)].method = Handled.method
           /\ received[Len(received)].params = Handled.params)
          => sessions' = sessions]_vars

\* the same non-empty document change was handled twice in a row
C12_Witness ==
  /\ Len(received) = 2
  /\ IsDidChangeWithText(received[1])
  /\ Get(received[1].params).text = Some("docB")
  /\ received[2].conn = received[1].conn
  /\ received[2].method = received[1].method
  /\ received[2].params = received[1].params
  /\ received[1].conn \in DOMAIN sessions
  /\ sessions[received[1].conn].documentContent = "docB"

\* C13: after an initialize/context message with a factObject and without
\* a factSchema has been handled, the session's factSchema is the schema
\* extracted from the factObject: one entry per top-level key, with the
\* type of its value.
C13_MissingSchemaIsDerived ==
  [][\A c \in DOMAIN sessions :
       (/\ MessageHandled
        /\ Handled.conn = c
        /\ Handled.method = "initialize/context"
        /\ Handled.params # None
        /\ Get(Handled.params).factObject # None
        /\ Get(Handled.params).factSchema = None
        /\ serverUp') =>
         /\ c \in DOMAIN sessions'
         /\ sessions'[c].initialized
         /\ sessions'[c].factSchema =
              extractFactSchema(Get(Get(Handled.params).factObject))]_vars

\* the outcomes with which the generation call fails: an exception before
\* fetch, a network error, a non-success status, a reply without content,
\* content that is not JSON
Outcomes == ServiceOutcomes \cup {ThrewBeforeFetch}
CallFails(outcome) ==
  \/ outcome.fetch # "ok"
  \/ outcome.content = None
  \/ ~Get(outcome.content).parses
\* the response that a step has put on an open connection
Sent(c) == outbox'[c][Len(outbox'[c])]
SendsOne(c) == Len(outbox'[c]) = Len(outbox[c]) + 1

\* C14: when the call made for a generate request fails, the response has
\* one item per template of the library as it is when the response is
\* built, in library order, with the template's label and its rule text as
\* insertText.
C14_GenerateFailureGivesTemplates ==
  [][\A k \in pending : \A outcome \in Outcomes :
       (/\ ResumeHandler(k, outcome)
        /\ k.mode = "create"
        /\ CallFails(outcome)
        /\ readyState[k.conn] = "open") =>
         /\ SendsOne(k.conn)
         /\ Sent(k.conn).id = k.id
         /\ LET items == Sent(k.conn).result.items
            IN  /\ Len(items) = Len(ruleTemplates')
                /\ \A i \in 1..Len(items) :
                     /\ items[i].label = ruleTemplates'[i].label
                     /\ items[i].insertText = ruleTemplates'[i].ruleContent]_vars

\* a generate request whose call reached the service and failed there has
\* been answered with the template
C14_Witness ==
  \E c \in Conns : \E r \in Responses(c) :
    /\ r.seq \in httpCalls
    /\ received[r.seq].method = "textDocument/completion"
    /\ Get(received[r.seq].params).mode = Some("generate")
    /\ Len(r.result.items) = 1
    /\ r.result.items[1].label = "Flag high premium greater than 500"

\* C15: when the call made for a generate request succeeds with a reply
\* {drl, reasoning}, the response has exactly one item, with insertText =
\* drl and detail = reasoning.
C15_GenerateSuccessGivesOneItem ==
  [][\A k \in pending : \A outcome \in ServiceOutcomes :
       (/\ ResumeHandler(k, outcome)
        /\ k.mode = "create"
        /\ ~CallFails(outcome)
        /\ Get(outcome.content).drl # None
        /\ Get(outcome.content).reasoning # None
        /\ readyState[k.conn] = "open") =>
         /\ SendsOne(k.conn)
         /\ Sent(k.conn).id = k.id
         /\ LET items == Sent(k.conn).result.items
            IN  /\ Len(items) = 1
                /\ items[1].insertText = Get(Get(outcome.content).drl)
                /\ items[1].detail = Get(Get(outcome.content).reasoning)]_vars

\* a generate request has been answered with the generated rule
C15_Witness ==
  \E c \in Conns : \E r \in Responses(c) :
    /\ r.seq \in httpCalls
    /\ Get(received[r.seq].params).mode = Some("generate")
    /\ Len(r.result.items) = 1
    /\ r.result.items[1].label = "Generated DRL Rule"
    /\ r.result.items[1].insertText = Drl1
    /\ r.result.items[1].detail = "raised the threshold"

\* the request that a response answers
RequestOf(r) == received[r.seq]
IsModifyRequest(m) ==
  /\ m.method = "textDocument/completion"
  /\ m.params # None
  /\ Get(m.params).position # None
  /\ Get(m.params).mode = Some("modify")

RuleForms ==
  {[name |-> <<"R1">>, conditions |-> <<"$q : Quote(premium > 500)">>,
    actions |-> <<"$q.setRequiresReview(true);">>],
   [name |-> <<"R2">>, conditions |-> <<"$q : Quote(premium > 900)">>,
    actions |-> Rule2Action]}
ruleOfForm(p) ==
  <<"rule", " ", "\"">> \o p.name \o <<"\"", "\n", "when", "\n", "    ">>
  \o p.conditions \o <<"\n", "then", "\n", "    ">> \o p.actions
  \o <<"\n", "end">>
occursIn(sub, s) ==
  \E i \in 1..(Len(s) - Len(sub) + 1) : SubSeq(s, i, i + Len(sub) - 1) = sub
IsModifyFallback(r) ==
  /\ IsModifyRequest(RequestOf(r))
  /\ Len(r.result.items) = 1
  /\ r.result.items[1].label = "Modified Rule (Fallback)"

\* C17: on the modify fallback path, for an existing rule of the form
\* rule "<name>" when <conditions> then <actions> end, the insertText is
\* a rule named "<name> (Modified)" whose when section holds the complete
\* condition body and whose then section holds the complete action body,
\* each line trimmed and indented by four spaces.
C17_MockKeepsWholeBodies ==
  \A c \in Conns : \A r \in Responses(c) : \A p \in RuleForms :
    (IsModifyFallback(r) /\ Get(RequestOf(r).params).existingRule = Some(ruleOfForm(p)))
    => LET text == r.result.items[1].insertText
       IN  /\ occursIn(<<"rule", " ", "\"">> \o p.name \o <<" (Modified)", "\"">>, text)
           /\ occursIn(<<"when", "\n">> \o indentBlock(p.conditions) \o <<"\n">>, text)
           /\ occursIn(<<"then", "\n">> \o indentBlock(p.actions) \o <<"\n">>, text)

\* C18: a modify request without existingRule causes no call to the
\* generation service, and its answer holds no suggestion made from the
\* server's built-in sample rule, which the client did not supply.
C18_ModifyRequiresExistingRule ==
  /\ \A s \in httpCalls :
       IsModifyRequest(received[s]) => Get(received[s].params).existingRule # None
  /\ \A c \in Conns : \A r \in Responses(c) :
       (IsModifyRequest(RequestOf(r)) /\ Get(RequestOf(r).params).existingRule = None)
       => \A i \in 1..Len(r.result.items) :
            ~occursIn(<<"Sample Rule">>, r.result.items[i].insertText)

\* C19: when the generation call fails at the service (network error,
\* non-success status, reply without content, content that is not JSON),
\* the handler answers its request with a result holding the fallback of
\* the request's mode: the template items for generate, the one mock
\* modification for modify.
C19_ServiceFailureGivesFallback ==
  [][\A k \in pending : \A outcome \in ServiceOutcomes :
       (/\ ResumeHandler(k, outcome)
        /\ CallFails(outcome)
        /\ readyState[k.conn] = "open") =>
         /\ serverUp'
         /\ k \notin pending'
         /\ SendsOne(k.conn)
         /\ Sent(k.conn).id = k.id
         /\ DOMAIN Sent(k.conn) = {"id", "result", "seq"}
         /\ DOMAIN Sent(k.conn).result = {"items"}
         /\ LET items == Sent(k.conn).result.items
            IN  IF k.mode = "modify"
                THEN /\ Len(items) = 1
                     /\ items[1].label = "Modified Rule (Fallback)"
                     /\ items[1].insertText =
                          mockModifiedRule[k.existingRule][k.userPrompt].ruleText
                ELSE items = buildCompletionsFromTemplates(ruleTemplates)]_vars

\* a modify request whose call reached the service has been answered with
\* the mock modification of its own rule
C19_Witness ==
  \E c \in Conns : \E r \in Responses(c) :
    /\ r.seq \in httpCalls
    /\ IsModifyFallback(r)
    /\ Get(RequestOf(r).params).existingRule = Some(Rule1)
    /\ occursIn(<<"R1", " (Modified)">>, r.result.items[1].insertText)

\* C20: a reply whose JSON content lacks drl or reasoning is answered
\* with the fallback of the request's mode, never with a suggestion of the
\* success path.
C20_PartialReplyGivesFallback ==
  [][\A k \in pending : \A outcome \in ServiceOutcomes :
       (/\ ResumeHandler(k, outcome)
        /\ ~CallFails(outcome)
        /\ (Get(outcome.content).drl = None \/ Get(outcome.content).reasoning = None)
        /\ readyState[k.conn] = "open") =>
         /\ SendsOne(k.conn)
         /\ LET items == Sent(k.conn).result.items
            IN  IF k.mode = "modify"
                THEN /\ Len(items) = 1
                     /\ items[1].label = "Modified Rule (Fallback)"
                ELSE items = buildCompletionsFromTemplates(ruleTemplates)]_vars

IsCompletionRequest(m) ==
  /\ m.method = "textDocument/completion"
  /\ m.params # None
  /\ Get(m.params).position # None
ModeOf(m) == Get(m.params).mode

\* C21: while the credential of the generation service is missing, no
\* request causes an HTTP call to the service.
C21_NoCallWithoutCredential ==
  ~apiKey => httpCalls = {}

\* without a credential, a modify request carrying a rule and a generate
\* request have both run to their answers
C21_Witness ==
  /\ ~apiKey
  /\ httpCalls = {}
  /\ \E c \in Conns : \E r, q \in Responses(c) :
       /\ IsModifyRequest(RequestOf(r))
       /\ Get(RequestOf(r).params).existingRule # None
       /\ IsCompletionRequest(RequestOf(q))
       /\ ModeOf(RequestOf(q)) = Some("generate")

\* C22: a generate or modify request made while the credential is missing
\* is not answered with the fallback shownSuggestions of an unreachable
\* service (the mock modification, the template items).
C22_MissingCredentialNotHidden ==
  ~apiKey =>
    \A c \in Conns : \A r \in Responses(c) :
      /\ (IsModifyRequest(RequestOf(r))
           /\ Get(RequestOf(r).params).existingRule # None)
         => ~IsModifyFallback(r)
      /\ (IsCompletionRequest(RequestOf(r))
           /\ ModeOf(RequestOf(r)) \in {None, Some("generate")})
         => r.result.items # buildCompletionsFromTemplates(ruleTemplates)

\* C23: every response to a completion request is a result that carries
\* a list of items, never an error.
C23_CompletionNeverAnsweredWithError ==
  \A c \in Conns : \A r \in Responses(c) :
    received[r.seq].method = "textDocument/completion" =>
      /\ DOMAIN r = {"id", "result", "seq"}
      /\ DOMAIN r.result = {"items"}
      /\ DOMAIN r.result.items = 1..Len(r.result.items)

\* completion requests have been answered on the inline path and, after a
\* failure of the service, on the modify fallback path
C23_Witness ==
  \E c \in Conns : \E r, q \in Responses(c) :
    /\ IsCompletionRequest(RequestOf(r))
    /\ ModeOf(RequestOf(r)) = Some("inline")
    /\ IsModifyFallback(q)
    /\ q.seq \in httpCalls

\* a frame that is not JSON (recorded with the empty method), or a context
\* or completion request without its params or position
IsMalformed(m) ==
  \/ m.method = ""
  \/ m.method = "initialize/context" /\ m.params = None
  \/ m.method = "textDocument/completion"
       /\ (m.params = None \/ Get(m.params).position = None)

\* C24: the handling of a malformed message changes no session, closes no
\* connection, sends nothing and leaves the server running, so that later
\* messages of the connection are handled.
C24_MalformedMessageIgnored ==
  [][(MessageHandled /\ IsMalformed(Handled)) =>
       /\ sessions' = sessions
       /\ readyState' = readyState
       /\ outbox' = outbox
       /\ pending' = pending
       /\ serverUp']_vars

\* C25: a completion request whose mode is present and is none of
\* generate, modify and inline is given to no mode handler: it suspends no
\* handler, causes no call to the generation service and gets no items.
C25_UnknownModeIgnored ==
  LET UnknownMode(m) ==
        /\ IsCompletionRequest(m)
        /\ ModeOf(m) # None
        /\ ModeOf(m) \notin {Some("generate"), Some("modify"), Some("inline")}
  IN  /\ \A k \in pending : ~UnknownMode(received[k.seq])
      /\ \A s \in httpCalls : ~UnknownMode(received[s])
      /\ \A c \in Conns : \A r \in Responses(c) : ~UnknownMode(RequestOf(r))

\* C26: an inline request of an initialized session whose text before the
\* cursor ends in Quote( is answered with a numeric comparison for every
\* number field of the fact object and a boolean comparison for every
\* boolean field.
C26_InlineSuggestsFieldComparisons ==
  [][\A c \in DOMAIN sessions :
       (/\ MessageHandled
        /\ Handled.conn = c
        /\ IsCompletionRequest(Handled)
        /\ ModeOf(Handled) = Some("inline")
        /\ Get(Handled.params).position = Some(Position2)
        /\ sessions[c].initialized
        /\ sessions[c].documentContent = DocQuote) =>
         /\ SendsOne(c)
         /\ LET items == Sent(c).result.items
                factObject == sessions[c].factObject
            IN  \A i \in 1..Len(factObject) :
                  /\ factObject[i].value.kind = "number" =>
                       \E j \in 1..Len(items) :
                         /\ items[j].kind = 5
                         /\ items[j].insertText = <<factObject[i].name \o " > 0">>
                  /\ factObject[i].value.kind = "boolean" =>
                       \E j \in 1..Len(items) :
                         /\ items[j].kind = 5
                         /\ items[j].insertText = <<factObject[i].name \o " == true">>]_vars

\* a session was initialized with the document ending in Quote( and without
\* a schema, and its inline request at the end of the line was answered
C26_Witness ==
  /\ Len(received) = 2
  /\ received[1].method = "initialize/context"
  /\ received[1].params # None
  /\ Get(received[1].params).currentDrl = Some(DocQuote)
  /\ Get(received[1].params).factSchema = None
  /\ received[2].conn = received[1].conn
  /\ IsCompletionRequest(received[2])
  /\ ModeOf(received[2]) = Some("inline")
  /\ Get(received[2].params).position = Some(Position2)
  /\ \E r \in Responses(received[2].conn) :
       /\ r.seq = 2
       /\ \E j \in 1..Len(r.result.items) : r.result.items[j].label = "premium > 0"

\* C27: an inline request of a connection that has a session is answered
\* in the step that handles it, whatever calls to the generation service
\* are outstanding: it suspends no handler and makes no call.
C27_InlineAnsweredAtOnce ==
  [][\A c \in DOMAIN sessions :
       (/\ MessageHandled
        /\ Handled.conn = c
        /\ IsCompletionRequest(Handled)
        /\ ModeOf(Handled) = Some("inline")) =>
         /\ SendsOne(c)
         /\ Sent(c).id = Handled.id
         /\ Sent(c).seq = Len(received')
         /\ pending' = pending
         /\ httpCalls' = httpCalls]_vars

\* an inline request was answered while an earlier request of the same
\* connection is still waiting for the generation service
C27_Witness ==
  \E k \in pending : \E r \in Responses(k.conn) :
    /\ k.fetching
    /\ r.seq > k.seq
    /\ IsCompletionRequest(RequestOf(r))
    /\ ModeOf(RequestOf(r)) = Some("inline")

\* the lines of the editor's document; a rule of the document is a header
\* line h together with its terminator line t: the first line from h on
\* that is solely end while the braces opened since h are all closed
EditorLines == split(editorModel, "\n")
IsHeaderLine(h) == ruleMatch(EditorLines[h]) # None
Occurrences(h, i, a) ==
  UNION {{<<l, k>> : k \in {n \in 1..Len(EditorLines[l]) : EditorLines[l][n] = a}} :
           l \in h..i}
DepthFrom(h, i) ==
  Cardinality(Occurrences(h, i, "{")) - Cardinality(Occurrences(h, i, "}"))
ClosesAt(h, t) == t >= h /\ endMatch(EditorLines[t]) /\ DepthFrom(h, t) = 0
IsTerminatorOf(h, t) == ClosesAt(h, t) /\ \A u \in h..(t - 1) : ~ClosesAt(h, u)
IsRuleOfDocument(h, t) == IsHeaderLine(h) /\ IsTerminatorOf(h, t)
\* no other header lies inside the rule
Unnested(h, t) == \A k \in (h + 1)..t : ~IsHeaderLine(k)
LineNumbers == 1..Len(EditorLines)

HeadersAbove == {h \in 1..editorPosition : IsHeaderLine(h)}
NearestHeader == CHOOSE h \in HeadersAbove : \A k \in HeadersAbove : h >= k
Unterminated(h) == \A t \in LineNumbers : ~IsTerminatorOf(h, t)

\* C29: when the header found by the backward scan has no terminator line
\* before the end of the document, detectRuleAtPosition returns null and
\* does not throw, whatever the cursor line is.
C29_UnterminatedRuleGivesNull ==
  (/\ detectedRule.done
   /\ HeadersAbove # {}
   /\ Unterminated(NearestHeader)) =>
    /\ ~detectedRule.result.threw
    /\ detectedRule.result.value = None

\* the locator has run on a rule whose only end line is inside a brace
\* that is still open
C29_Witness ==
  /\ detectedRule.done
  /\ HeadersAbove # {}
  /\ Unterminated(NearestHeader)
  /\ \E t \in LineNumbers :
       /\ t > NearestHeader
       /\ endMatch(EditorLines[t])
       /\ DepthFrom(NearestHeader, t) > 0
       /\ editorPosition < t
  /\ detectedRule.result = Returned(None)

\* C30: for every fact object the schema has exactly the object's top-level
\* keys, and gives null for a null value, array for an array, object for
\* a nested object, and the primitive type name for a string, a number or
\* a boolean.
C30_SchemaClassifiesEveryKey ==
  (extractedSchema.done /\ factObjectInput # None) =>
    LET schema == extractedSchema.result.value
        fact == Get(factObjectInput)
    IN  /\ Len(schema) = Len(fact)
        /\ {schema[i].name : i \in 1..Len(schema)} = {fact[i].name : i \in 1..Len(fact)}
        /\ \A i \in 1..Len(fact) :
             member(schema, fact[i].name) =
               {CASE fact[i].value.kind = "null" -> "null"
                  [] fact[i].value.kind = "array" -> "array"
                  [] fact[i].value.kind = "object" -> "object"
                  [] fact[i].value.kind = "string" -> "string"
                  [] fact[i].value.kind = "number" -> "number"
                  [] fact[i].value.kind = "boolean" -> "boolean"}

\* the schema of a fact object that has a null member and an array member
C30_Witness ==
  /\ extractedSchema.done
  /\ factObjectInput # None
  /\ \E i, j \in 1..Len(Get(factObjectInput)) :
       /\ Get(factObjectInput)[i].value.kind = "null"
       /\ Get(factObjectInput)[j].value.kind = "array"
       /\ member(extractedSchema.result.value, Get(factObjectInput)[i].name) = {"null"}
       /\ member(extractedSchema.result.value, Get(factObjectInput)[j].name) = {"array"}

\* C31: extractFactSchema raises no error for any argument, and for an
\* absent (null or undefined) or empty fact object its result is the empty
\* mapping.
C31_SchemaExtractorIsTotal ==
  extractedSchema.done =>
    /\ ~extractedSchema.result.threw
    /\ (factObjectInput \in {None, Some(EmptyObject)}) =>
         extractedSchema.result.value = EmptyObject

LabelsDistinct(templates) ==
  \A i, j \in 1..Len(templates) : templates[i].label = templates[j].label => i = j

\* C32: the labels of the template library stay pairwise distinct; an
\* upsert of a record whose label is present puts that record in the place
\* of the stored one, so that a lookup of the label gives a record equal to
\* it, and leaves the count and the other records as they are; an upsert
\* of a record with a new label appends it.
C32_UpsertReplacesOrAppends ==
  [][\A r \in TemplateInputs :
       UpsertTemplate(r) =>
         /\ LabelsDistinct(ruleTemplates')
         /\ IF getTemplateByLabel(ruleTemplates, r.label) # None
            THEN /\ getTemplateByLabel(ruleTemplates', r.label) = Some(r)
                 /\ Len(ruleTemplates') = Len(ruleTemplates)
                 /\ \A i \in 1..Len(ruleTemplates) :
                      ruleTemplates[i].label # r.label =>
                        ruleTemplates'[i] = ruleTemplates[i]
            ELSE ruleTemplates' = Append(ruleTemplates, r)]_vars

\* C36: in every state the sessions Map has an entry for exactly the
\* connections that are open: none for a connection not yet accepted and
\* none for a closed one, after any interleaving of connects, messages,
\* settled calls and disconnects.
C36_OneSessionPerOpenConnection ==
  DOMAIN sessions = {c \in Conns : readyState[c] = "open"}

\* one connection has sent a message and closed, another one is open and
\* is the only one that has a session
C36_Witness ==
  \E c, d \in Conns :
    /\ readyState[c] = "closed"
    /\ readyState[d] = "open"
    /\ \E i \in 1..Len(received) : received[i].conn = c
    /\ DOMAIN sessions = {d}

\* C37: the call made for a generate or modify request gets the document
\* text, the fact object and the fact schema that the session held when
\* the request was received; no message handled while the call is in
\* flight alters these arguments, and the response sent when the call
\* settles is built from the call and its outcome alone.
C37_CallUsesSessionAsReceived ==
  [][/\ \A k \in pending' \ pending :
          /\ k.seq = Len(received')
          /\ k.conn \in DOMAIN sessions
          /\ k.documentContent = sessions[k.conn].documentContent
          /\ k.factObject = sessions[k.conn].factObject
          /\ k.factSchema = sessions[k.conn].factSchema
     /\ \A k \in pending : k \in pending' \/ \A n \in pending' : n.seq # k.seq
     /\ \A k \in pending : \A outcome \in ServiceOutcomes \cup {ThrewBeforeFetch} :
          (ResumeHandler(k, outcome) /\ readyState[k.conn] = "open") =>
            /\ SendsOne(k.conn)
            /\ Sent(k.conn).seq = k.seq
            /\ Sent(k.conn).result.items =
                 IF k.mode = "modify" THEN handleModifyRequest(k, outcome)
                 ELSE handleCreateRequest(k, outcome, ruleTemplates)]_vars

\* a call is at the generation service and the session of its connection
\* has meanwhile got another document, or other fact data, than the call
C37_Witness ==
  \E k \in pending :
    /\ k.fetching
    /\ k.conn \in DOMAIN sessions
    /\ \/ sessions[k.conn].documentContent # k.documentContent
       \/ sessions[k.conn].factObject # k.factObject

\* the number of characters of the text before the position
CharsBefore(content, lineNumber, column) ==
  LET ls == split(content, "\n")
  IN  length(join(SubSeq(ls, 1, lineNumber - 1), "\n"))
        + (IF lineNumber > 1 THEN 1 ELSE 0) + column - 1

\* the position is one of the text, between two of its atoms
InText(content, lineNumber, column) ==
  LET ls == split(content, "\n")
  IN  /\ lineNumber \in 1..Len(ls)
      /\ column \in 1..(length(ls[lineNumber]) + 1)
      /\ \E k \in 0..Len(content) :
           length(SubSeq(content, 1, k)) = CharsBefore(content, lineNumber, column)

AtomsUpTo(content, lineNumber, column) ==
  CHOOSE k \in 0..Len(content) :
    length(SubSeq(content, 1, k)) = CharsBefore(content, lineNumber, column)

\* the text with what lies between the two positions replaced
Replaced(content, range, insertText) ==
  SubSeq(content, 1, AtomsUpTo(content, range.startLineNumber, range.startColumn))
    \o insertText
    \o SubSeq(content, AtomsUpTo(content, range.endLineNumber, range.endColumn) + 1,
              Len(content))

\* C33: when the user selects a suggestion whose range spans more than one
\* line, the document afterwards is the document before with exactly the
\* text between the range's start and end replaced by the suggestion's
\* text; a suggestion whose range lies on one line is inserted at the
\* cursor and replaces nothing.
C33_MultiLineRangeIsReplaced ==
  [][\A i \in 1..Len(shownSuggestions) :
       SelectSuggestion(i) =>
         LET suggestion == shownSuggestions[i]
             r == suggestion.range
             cursor == [startLineNumber |-> editorPosition, startColumn |-> editorColumn,
                        endLineNumber |-> editorPosition, endColumn |-> editorColumn]
         IN  IF r.startLineNumber # r.endLineNumber
             THEN (/\ InText(editorModel, r.startLineNumber, r.startColumn)
                   /\ InText(editorModel, r.endLineNumber, r.endColumn))
                    => editorModel' = Replaced(editorModel, r, suggestion.insertText)
             ELSE editorModel' = Replaced(editorModel, cursor, suggestion.insertText)]_vars

\* the modified rule has taken the place of the indented rule: the line
\* above it and the indentation of its header are still there
C33_Witness ==
  /\ pendingModifyRuleContext # None
  /\ shownSuggestions = <<>>
  /\ editorModel = <<"x", "\n", "    ">> \o Drl1

\* C35: when a modify suggestion is applied, its range bounds the rule of
\* the request in the document it is applied to: the lines from its start
\* line to its end line are the lines of the rule, header to terminator,
\* its start column is the first column of the header after the
\* indentation and its end column the column after the terminator line;
\* also when the document was edited while the request was in flight.
C35_ModifyRangeBoundsRuleBlock ==
  [][\A i \in 1..Len(shownSuggestions) :
       (/\ SelectSuggestion(i)
        /\ shownSuggestions[i].range.startLineNumber
             # shownSuggestions[i].range.endLineNumber) =>
         LET r == shownSuggestions[i].range
             ls == split(editorModel, "\n")
         IN  /\ r.startLineNumber \in 1..Len(ls)
             /\ r.endLineNumber \in 1..Len(ls)
             /\ join(SubSeq(ls, r.startLineNumber, r.endLineNumber), "\n")
                  = Get(pendingModifyRuleContext).existingRule
             /\ r.startColumn = length(ls[r.startLineNumber])
                                  - length(trimStart(ls[r.startLineNumber])) + 1
             /\ r.endColumn = length(ls[r.endLineNumber]) + 1]_vars

\* C34: with several requests in flight on the socket, the listener of a
\* request takes no response but the one to its own request, in whatever
\* order the responses arrive and also when two requests were made in the
\* same millisecond.
C34_OwnResponseOnly ==
  \A k \in 1..Len(requests) : requests[k].consumed \subseteq {k}

\* C38: the listener of a generate or modify request that was sent stays
\* registered until its response has come or 45 seconds have passed since
\* the request, as long as the client has not disconnected: a response that
\* arrives within that time reaches the suggestions dropdown.
C38_HandlerKeptForWindow ==
  \A k \in 1..Len(requests) :
    (/\ requests[k].kind \in DropdownKinds
     /\ requests[k].sent
     /\ requests[k].consumed = {}
     /\ ws = Some(requests[k].socket)
     /\ now < requests[k].id + CompletionTimeout)
      => requests[k].handler

\* C39: every request of a function that holds a promise is resolved in
\* the end, with the items of a response or with no suggestions; also a
\* request made while the socket is not open, and a request that is
\* pending when disconnectLSP is called.
C39_EveryPromiseResolves ==
  \A k \in 1..MaxRequests :
    (Len(requests) >= k /\ requests[k].kind \in PromiseKinds)
      ~> (Len(requests) >= k /\ requests[k].outcome # "pending")

\* C40: however often initializeLSP has been called, also while an earlier
\* call was still connecting, the client has at most one open socket, and
\* every socket it has created and that is not closed is the one held by
\* ws, on which the requests are sent.
C40_AtMostOneOpenSocket ==
  /\ Cardinality({s \in 1..Len(webSockets) : webSockets[s] = "open"}) <= 1
  /\ \A s \in 1..Len(webSockets) : webSockets[s] # "closed" => ws = Some(s)

====
